---- MODULE Spec2Model ----
(***************************************************************************)
(* A model of goosegorm's migration core: the registry and the runner      *)
(* (internal/runner/runner.go), the ledger table behind the versioner      *)
(* (internal/versioner/versioner.go), the in-memory schema builder, the    *)
(* diff engine and the generator's simulation blocks.                       *)
(*                                                                         *)
(* Versions are fixed-width digit strings in the program; the model uses   *)
(* the naturals 1..MaxVersion, whose order is the strings' order.          *)
(***************************************************************************)
EXTENDS Integers, Sequences, FiniteSets, TLC

\* ------------------------------------------------------------------ bounds
MaxVersion == 3
MaxN == MaxVersion + 1

\* The seconds the wall clock goes through.
MaxSecond == 2

\* The most calls of generateVersion within one second.
MaxSequence == 10000

\* The number of SimulateSchema results kept in `returned`.
MaxReturned == 2

\* The most index names and the most constraint expressions a table is given.
MaxListed == 1

\* The number of returned versions kept in `issued`.
MaxIssued == 3

Seconds == 1..MaxSecond

\* The goroutines calling the generator, and the Generator values they call it on.
Goroutines == {1, 2}
Generators == {"genA", "genB"}

Versions == 1..MaxVersion

VARIABLES
    registry,   \* Registry.migrations: the versions registered (a map keyed by version)
    ledger,     \* rows of the migration table, in insertion order: <<version, ...>>
    inForce,    \* the real store: versions whose forward effect is in force
    pc,         \* position of the running operation: "idle", "m_up", "m_rec", "r_down", "r_rem", "done"
    applied,    \* local `applied` of Migrate / Rollback
    pending,    \* local `pending` of Migrate
    idx,        \* loop position (1-based) in pending (Migrate) or applied (Rollback)
    n0,         \* Rollback's argument n as passed
    n,          \* Rollback's n after clamping
    result,     \* what the operation returned: [op, kind, version]
    ups,        \* the Up calls of this run in call order: [v |-> version, ok |-> returned nil]
    downs,      \* the Down calls of this run in call order: [v |-> version, ok |-> returned nil]
    ledger0,    \* the ledger rows when this run started
    prev,       \* in Migrate: summary of the run that ended right before it started
    models,     \* makemigrations: the parsed models (the target schema), in parse order
    log,        \* the migration files on disk, ascending by version: each the diffs it was generated from
    log0,       \* makemigrations: the migration files on disk when the command started
    lpc,        \* makemigrations: "idle", "loop", "success", "failed"
    iteration,  \* makemigrations: the loop's iteration counter
    diffs,      \* makemigrations: the diffs of the latest iteration
    clock,           \* the wall clock: the current second (time.Now().Unix())
    versionCounter,  \* generator.versionCounter (package-level)
    lastSecond,      \* generator.lastSecond (package-level)
    versionMutex,    \* generator.versionMutex: the goroutine holding it, 0 when free
    calls,           \* per goroutine, its call of GenerateMigration: [pc, gen, now, i]
    callsIn,         \* the latest second in which generateVersion read the clock, and how many calls did
    issued,          \* the versions returned so far (the latest MaxIssued of them), oldest first
    generated,       \* the latest GenerateMigration seen as a whole: [diffs, kind, version]
    spc,             \* SimulateSchema: "idle" or "run" (a call is in its loop)
    builder,         \* SimulateSchema: the local builder of the running call
    allMigrations,   \* SimulateSchema: the local slice of the running call (versions)
    simIdx,          \* SimulateSchema: loop position (1-based) in allMigrations
    simCalls,        \* the callMigrationUp calls of the latest SimulateSchema, in call order
    simResult,       \* what the latest SimulateSchema returned: [state, kind, version]
    returned,        \* the latest MaxReturned calls that returned a builder: [reg, state]
    called           \* the latest call on the builder: [call, before], before being the state it met

rvars == <<registry, ledger, inForce, pc, applied, pending, idx, n0, n,
           result, ups, downs, ledger0, prev>>
dvars == <<models, log, log0, lpc, iteration, diffs>>
avars == <<clock, versionCounter, lastSecond, versionMutex, calls, callsIn, issued, generated>>
svars == <<spc, builder, allMigrations, simIdx, simCalls, simResult, returned, called>>
vars == <<rvars, dvars, avars, svars>>

\* ------------------------------------------------------------------ helpers
Range(s) == {s[i] : i \in 1..Len(s)}

RECURSIVE Reverse(_)
Reverse(s) == IF s = <<>> THEN <<>> ELSE Append(Reverse(Tail(s)), Head(s))

\* Ascending sort (sort.Slice with a "<" comparison, ORDER BY ... ASC).
SortAsc(s) == SortSeq(s, LAMBDA a, b : a < b)

\* The elements of a set of versions as a sequence (ranging over a map).
SetToSeq(S) ==
    IF S = {} THEN <<>>
    ELSE LET lo == CHOOSE x \in S : \A y \in S : x <= y
             hi == CHOOSE x \in S : \A y \in S : y <= x
         IN SelectSeq([i \in 1..(hi - lo + 1) |-> lo + i - 1], LAMBDA x : x \in S)

RECURSIVE SelectNotIn(_, _)
SelectNotIn(s, S) ==
    IF s = <<>> THEN <<>>
    ELSE IF Head(s) \in S THEN SelectNotIn(Tail(s), S)
    ELSE <<Head(s)>> \o SelectNotIn(Tail(s), S)

\* ------------------------------------------------------------------ registry
\* GetAllMigrations without an ascending sort (the entries come out descending).
GetAllMigrations_Unsorted(reg) == Reverse(SortAsc(SetToSeq(reg)))

\* Registry.GetAllMigrations: the map's values in any order, then sorted by version.
GetAllMigrations(reg) == SortAsc(SetToSeq(reg))

\* ------------------------------------------------------------------ versioner
\* GetAppliedVersions without ORDER BY: the rows as they were inserted.
GetAppliedVersions_Unordered(rows) == rows

\* Versioner.GetAppliedVersions: SELECT ... ORDER BY version ASC.
GetAppliedVersions(rows) == SortAsc(rows)

\* Versioner.RecordApplied: INSERT; version is the primary key, so a second row
\* for a version is refused.  dbOk is whether the store accepts the statement.
RecordAppliedOk(rows, v, dbOk) == dbOk /\ v \notin Range(rows)
RecordApplied(rows, v) == Append(rows, v)

\* Versioner.RemoveApplied: DELETE ... WHERE version = ?.
RemoveApplied(rows, v) == SelectNotIn(rows, {v})

\* ------------------------------------------------------------------ runner
\* Pending computed without looking at appliedMap.
PendingOf_NoFilter(reg, appliedVersions) == GetAllMigrations(reg)

\* Migrate / GetPendingMigrations: every registered migration, in GetAllMigrations
\* order, whose version is not in appliedMap.
PendingOf(reg, appliedVersions) == SelectNotIn(GetAllMigrations(reg), Range(appliedVersions))

\* The clamp off by one.
ClampN_OffByOne(k, len) == IF k > len THEN len - 1 ELSE k

\* Rollback: if n > len(applied) { n = len(applied) }
ClampN(k, len) == IF k > len THEN len ELSE k

\* The loop bound off by one: `i > len(applied)-n`.
RollbackLoopCond_OffByOne(i, len, k) == i > len - k + 1

\* Whether the loop `for i := len(applied)-1; i >= len(applied)-n; i--` runs at
\* 1-based position i.
RollbackLoopCond(i, len, k) == i >= len - k + 1

Call(v, ok) == [v |-> v, ok |-> ok]

\* ------------------------------------------------------------------ results
NoVersion == 0
Ret(op, kind, v) == [op |-> op, kind |-> kind, version |-> v]
NoResult == Ret("none", "none", NoVersion)
NoPrev == [op |-> "none", kind |-> "none", version |-> NoVersion, changed |-> {}]

\* A nil *schema.SchemaBuilder, and what SimulateSchema returns: the builder,
\* and for kind "simulate" the error naming the version whose Up failed.
NilBuilder == [nil |-> TRUE]
SimRet(state, kind, v) == [state |-> state, kind |-> kind, version |-> v]

\* What GenerateMigration returned for the diffs it was given: kind "ok" with
\* the version in the file's name, or the error ("nodiffs", "mkdir", "write").
GenRet(ds, kind, version) == [diffs |-> ds, kind |-> kind, version |-> version]

\* No call on the builder yet (the fields of a call are those of SimCall).
NoCall ==
    [method |-> "none", table |-> "", name |-> "", colType |-> "",
     null |-> FALSE, pk |-> FALSE, unique |-> FALSE]

\* What the next run remembers of the run that has just ended: what it returned
\* and the versions whose ledger row it inserted (Migrate) or deleted (Rollback).
Summary ==
    IF pc = "done"
    THEN [op |-> result.op, kind |-> result.kind, version |-> result.version,
          changed |-> (Range(ledger) \ Range(ledger0)) \cup (Range(ledger0) \ Range(ledger))]
    ELSE NoPrev

Idle == pc \in {"idle", "done"}

Init ==
    /\ registry = {}
    /\ ledger = <<>>
    /\ inForce = {}
    /\ pc = "idle"
    /\ applied = <<>>
    /\ pending = <<>>
    /\ idx = 0
    /\ n0 = 0
    /\ n = 0
    /\ result = NoResult
    /\ ups = <<>>
    /\ downs = <<>>
    /\ ledger0 = <<>>
    /\ prev = NoPrev
    /\ models = <<>>
    /\ log = <<>>
    /\ log0 = <<>>
    /\ lpc = "idle"
    /\ iteration = 0
    /\ diffs = <<>>
    /\ clock = 1
    /\ versionCounter = 0
    /\ lastSecond = 0
    /\ versionMutex = 0
    /\ calls = [g \in Goroutines |-> [pc |-> "idle", gen |-> "", now |-> 0, i |-> 0]]
    /\ callsIn = [second |-> 0, count |-> 0]
    /\ issued = <<>>
    /\ generated = GenRet(<<>>, "none", <<>>)
    /\ spc = "idle"
    /\ builder = NilBuilder
    /\ allMigrations = <<>>
    /\ simIdx = 0
    /\ simCalls = <<>>
    /\ simResult = SimRet(NilBuilder, "none", NoVersion)
    /\ returned = <<>>
    /\ called = [call |-> NoCall, before |-> NilBuilder]

\* The run-local variables as a fresh call leaves them before it starts.
ClearRun ==
    /\ applied' = <<>>
    /\ pending' = <<>>
    /\ idx' = 0
    /\ n0' = 0
    /\ n' = 0
    /\ result' = NoResult
    /\ ups' = <<>>
    /\ downs' = <<>>
    /\ ledger0' = <<>>
    /\ prev' = NoPrev

\* NewRegistry: a fresh, empty registry (every process start builds one).
NewRegistry ==
    /\ Idle
    /\ registry # {}
    /\ registry' = {}
    /\ pc' = "idle"
    /\ ClearRun
    /\ UNCHANGED <<ledger, inForce>>
    /\ UNCHANGED <<dvars, avars, svars>>

\* Registry.RegisterMigration: r.migrations[m.Version()] = m.
RegisterMigration(v) ==
    /\ Idle
    /\ registry' = registry \cup {v}
    /\ pc' = "idle"
    /\ ClearRun
    /\ UNCHANGED <<ledger, inForce>>
    /\ UNCHANGED <<dvars, avars, svars>>

\* ------------------------------------------------------------------ Migrate
\* Runner.Migrate up to the first loop iteration: read the ledger, build pending.
MigrateBegin ==
    /\ Idle
    /\ prev' = Summary
    /\ ledger0' = ledger
    /\ ups' = <<>>
    /\ downs' = <<>>
    /\ n0' = 0
    /\ n' = 0
    /\ \E dbOk \in BOOLEAN :
        IF ~dbOk
        THEN /\ result' = Ret("migrate", "query", NoVersion)
             /\ pc' = "done"
             /\ applied' = <<>>
             /\ pending' = <<>>
             /\ idx' = 0
        ELSE /\ applied' = GetAppliedVersions(ledger)
             /\ pending' = PendingOf(registry, applied')
             /\ idx' = 1
             /\ IF pending' = <<>>
                THEN pc' = "done" /\ result' = Ret("migrate", "ok", NoVersion)
                ELSE pc' = "m_up" /\ result' = NoResult
    /\ UNCHANGED <<registry, ledger, inForce>>
    /\ UNCHANGED <<dvars, avars, svars>>

\* Migrate writing the ledger row before it runs Up.
MigrateUp_RecordFirst ==
    /\ pc = "m_up"
    /\ LET m == pending[idx] IN
        \E upOk \in BOOLEAN :
            /\ ups' = Append(ups, Call(m, upOk))
            /\ ledger' = RecordApplied(ledger, m)
            /\ IF upOk
               THEN /\ inForce' = inForce \cup {m}
                    /\ idx' = idx + 1
                    /\ IF idx + 1 > Len(pending)
                       THEN pc' = "done" /\ result' = Ret("migrate", "ok", NoVersion)
                       ELSE pc' = "m_up" /\ result' = result
               ELSE /\ inForce' = inForce
                    /\ idx' = idx
                    /\ pc' = "done"
                    /\ result' = Ret("migrate", "apply", m)
    /\ UNCHANGED <<registry, applied, pending, n0, n, downs, ledger0, prev>>
    /\ UNCHANGED <<dvars, avars, svars>>

\* r.RunUp(m) for m = pending[idx]; a failing Up ends Migrate with its error.
MigrateUp ==
    /\ pc = "m_up"
    /\ LET m == pending[idx] IN
        \E upOk \in BOOLEAN :
            /\ ups' = Append(ups, Call(m, upOk))
            /\ IF upOk
               THEN /\ inForce' = inForce \cup {m}
                    /\ pc' = "m_rec"
                    /\ result' = result
               ELSE /\ inForce' = inForce
                    /\ pc' = "done"
                    /\ result' = Ret("migrate", "apply", m)
    /\ UNCHANGED <<registry, ledger, applied, pending, idx, n0, n, downs, ledger0, prev>>
    /\ UNCHANGED <<dvars, avars, svars>>

\* r.versioner.RecordApplied(m.Version(), m.Name()), then the next iteration.
MigrateRecord ==
    /\ pc = "m_rec"
    /\ LET m == pending[idx] IN
        \E dbOk \in BOOLEAN :
            IF RecordAppliedOk(ledger, m, dbOk)
            THEN /\ ledger' = RecordApplied(ledger, m)
                 /\ idx' = idx + 1
                 /\ IF idx + 1 > Len(pending)
                    THEN pc' = "done" /\ result' = Ret("migrate", "ok", NoVersion)
                    ELSE pc' = "m_up" /\ result' = result
            ELSE /\ ledger' = ledger
                 /\ idx' = idx
                 /\ pc' = "done"
                 /\ result' = Ret("migrate", "record", m)
    /\ UNCHANGED <<registry, inForce, applied, pending, n0, n, ups, downs, ledger0, prev>>
    /\ UNCHANGED <<dvars, avars, svars>>

\* ------------------------------------------------------------------ Rollback
\* Runner.Rollback(k) up to the first loop iteration.
RollbackBegin(k) ==
    /\ Idle
    /\ prev' = NoPrev
    /\ ledger0' = ledger
    /\ ups' = <<>>
    /\ downs' = <<>>
    /\ pending' = <<>>
    /\ n0' = k
    /\ \E dbOk \in BOOLEAN :
        IF ~dbOk
        THEN /\ result' = Ret("rollback", "query", NoVersion)
             /\ pc' = "done"
             /\ applied' = <<>>
             /\ idx' = 0
             /\ n' = k
        ELSE /\ applied' = GetAppliedVersions(ledger)
             /\ IF Len(applied') = 0
                THEN /\ result' = Ret("rollback", "empty", NoVersion)
                     /\ pc' = "done"
                     /\ idx' = 0
                     /\ n' = k
                ELSE /\ n' = ClampN(k, Len(applied'))
                     /\ idx' = Len(applied')
                     /\ IF RollbackLoopCond(idx', Len(applied'), n')
                        THEN pc' = "r_down" /\ result' = NoResult
                        ELSE pc' = "done" /\ result' = Ret("rollback", "ok", NoVersion)
    /\ UNCHANGED <<registry, ledger, inForce>>
    /\ UNCHANGED <<dvars, avars, svars>>

\* r.registry.GetMigration(version) and r.RunDown(m) for version = applied[idx].
RollbackDown ==
    /\ pc = "r_down"
    /\ LET version == applied[idx] IN
        IF version \notin registry
        THEN /\ pc' = "done"
             /\ result' = Ret("rollback", "notfound", version)
             /\ UNCHANGED <<inForce, downs>>
        ELSE \E downOk \in BOOLEAN :
                 /\ downs' = Append(downs, Call(version, downOk))
                 /\ IF downOk
                    THEN /\ inForce' = inForce \ {version}
                         /\ pc' = "r_rem"
                         /\ result' = result
                    ELSE /\ inForce' = inForce
                         /\ pc' = "done"
                         /\ result' = Ret("rollback", "down", version)
    /\ UNCHANGED <<registry, ledger, applied, pending, idx, n0, n, ups, ledger0, prev>>
    /\ UNCHANGED <<dvars, avars, svars>>

\* Rollback deleting the registry entry together with the ledger row.
RollbackRemove_Unregister ==
    /\ pc = "r_rem"
    /\ LET version == applied[idx] IN
        \E dbOk \in BOOLEAN :
            IF dbOk
            THEN /\ ledger' = RemoveApplied(ledger, version)
                 /\ registry' = registry \ {version}
                 /\ idx' = idx - 1
                 /\ IF RollbackLoopCond(idx - 1, Len(applied), n)
                    THEN pc' = "r_down" /\ result' = result
                    ELSE pc' = "done" /\ result' = Ret("rollback", "ok", NoVersion)
            ELSE /\ ledger' = ledger
                 /\ registry' = registry
                 /\ idx' = idx
                 /\ pc' = "done"
                 /\ result' = Ret("rollback", "remove", version)
    /\ UNCHANGED <<inForce, applied, pending, n0, n, ups, downs, ledger0, prev>>
    /\ UNCHANGED <<dvars, avars, svars>>

\* r.versioner.RemoveApplied(version), then the next iteration.
RollbackRemove ==
    /\ pc = "r_rem"
    /\ LET version == applied[idx] IN
        \E dbOk \in BOOLEAN :
            IF dbOk
            THEN /\ ledger' = RemoveApplied(ledger, version)
                 /\ idx' = idx - 1
                 /\ IF RollbackLoopCond(idx - 1, Len(applied), n)
                    THEN pc' = "r_down" /\ result' = result
                    ELSE pc' = "done" /\ result' = Ret("rollback", "ok", NoVersion)
            ELSE /\ ledger' = ledger
                 /\ idx' = idx
                 /\ pc' = "done"
                 /\ result' = Ret("rollback", "remove", version)
    /\ UNCHANGED <<registry, inForce, applied, pending, n0, n, ups, downs, ledger0, prev>>
    /\ UNCHANGED <<dvars, avars, svars>>

Next ==
    \/ NewRegistry
    \/ \E v \in Versions : RegisterMigration(v)
    \/ MigrateBegin
    \/ MigrateUp
    \/ MigrateRecord
    \/ \E k \in 0..MaxN : RollbackBegin(k)
    \/ RollbackDown
    \/ RollbackRemove

Spec == Init /\ [][Next]_vars

\* Runner.GetPendingMigrations: the ledger is read (the query may fail), then the
\* registered migrations not in appliedMap are collected in GetAllMigrations order.
GetPendingMigrations ==
    /\ Idle
    /\ prev' = Summary
    /\ ledger0' = ledger
    /\ ups' = <<>>
    /\ downs' = <<>>
    /\ n0' = 0
    /\ n' = 0
    /\ idx' = 0
    /\ pc' = "done"
    /\ \E dbOk \in BOOLEAN :
        IF ~dbOk
        THEN /\ result' = Ret("pending", "query", NoVersion)
             /\ applied' = <<>>
             /\ pending' = <<>>
        ELSE /\ result' = Ret("pending", "ok", NoVersion)
             /\ applied' = GetAppliedVersions(ledger)
             /\ pending' = PendingOf(registry, applied')
    /\ UNCHANGED <<registry, ledger, inForce>>
    /\ UNCHANGED <<dvars, avars, svars>>

\* What GetAppliedMigrations returns: the migrations (by version) and the error kind.
RetMigrations(kind, ms) ==
    [op |-> "applied", kind |-> kind, version |-> NoVersion, migrations |-> ms]

\* The applied list as every registered migration, whatever the ledger holds.
AppliedOf_AllRegistered(reg, appliedVersions) == GetAllMigrations(reg)

\* GetAppliedMigrations' loop: for every applied version, in the order read, the
\* migration r.registry.GetMigration finds; a version it does not find is skipped.
AppliedOf(reg, appliedVersions) == SelectSeq(appliedVersions, LAMBDA v : v \in reg)

\* GetAppliedMigrations that also deletes the ledger rows it finds no migration for.
GetAppliedMigrations_Prune ==
    /\ Idle
    /\ prev' = Summary
    /\ ledger0' = ledger
    /\ ups' = <<>>
    /\ downs' = <<>>
    /\ n0' = 0
    /\ n' = 0
    /\ idx' = 0
    /\ pending' = <<>>
    /\ pc' = "done"
    /\ applied' = GetAppliedVersions(ledger)
    /\ result' = RetMigrations("ok", AppliedOf(registry, applied'))
    /\ ledger' = SelectSeq(ledger, LAMBDA v : v \in registry)
    /\ UNCHANGED <<registry, inForce>>
    /\ UNCHANGED <<dvars, avars, svars>>

\* Runner.GetAppliedMigrations: the ledger is read (the query may fail), then the
\* registered migration of every applied version is collected.
GetAppliedMigrations ==
    /\ Idle
    /\ prev' = Summary
    /\ ledger0' = ledger
    /\ ups' = <<>>
    /\ downs' = <<>>
    /\ n0' = 0
    /\ n' = 0
    /\ idx' = 0
    /\ pending' = <<>>
    /\ pc' = "done"
    /\ \E dbOk \in BOOLEAN :
        IF ~dbOk
        THEN /\ result' = RetMigrations("query", <<>>)
             /\ applied' = <<>>
        ELSE /\ applied' = GetAppliedVersions(ledger)
             /\ result' = RetMigrations("ok", AppliedOf(registry, applied'))
    /\ UNCHANGED <<registry, ledger, inForce>>
    /\ UNCHANGED <<dvars, avars, svars>>

\* Registering, migrating and asking for the pending and the applied migrations.
NextPending ==
    \/ NewRegistry
    \/ \E v \in Versions : RegisterMigration(v)
    \/ MigrateBegin
    \/ MigrateUp
    \/ MigrateRecord
    \/ GetPendingMigrations
    \/ GetAppliedMigrations

SpecPending == Init /\ [][NextPending]_vars

\* ------------------------------------------------------------------ schema model
\* Go maps are functions from their key set; Put is m[k] = v, Del is delete(m, k).
EmptyMap == <<>>
Put(m, k, v) == [x \in (DOMAIN m) \cup {k} |-> IF x = k THEN v ELSE m[x]]
Del(m, k) == [x \in (DOMAIN m) \ {k} |-> m[x]]

RECURSIVE SelectNot(_, _)
SelectNot(s, x) ==
    IF s = <<>> THEN <<>>
    ELSE IF Head(s) = x THEN SelectNot(Tail(s), x)
    ELSE <<Head(s)>> \o SelectNot(Tail(s), x)

\* schema.Column and schema.Table.
Column(name, colType, null, pk, unique) ==
    [Name |-> name, Type |-> colType, Null |-> null, PK |-> pk, Unique |-> unique]
Table(name) == [Name |-> name, Columns |-> EmptyMap, Constraints |-> <<>>, Indexes |-> <<>>]

\* NewSchemaBuilder: a SchemaState with no tables.
NewSchemaBuilder == EmptyMap

TableExists(s, name) == name \in DOMAIN s

\* CreateTable keeping a table that is already there.
CreateTable_KeepExisting(s, name) == IF name \in DOMAIN s THEN s ELSE Put(s, name, Table(name))

\* SchemaBuilder.CreateTable: a fresh empty table under the name, replacing any
\* table already there.  The handle returned is the table of that name.
CreateTable(s, name) == Put(s, name, Table(name))

\* AlterTable handing out a fresh table every time.
AlterTable_Replace(s, name) == Put(s, name, Table(name))

\* SchemaBuilder.AlterTable: the existing table, created empty when absent.
AlterTable(s, name) == IF TableExists(s, name) THEN s ELSE Put(s, name, Table(name))

\* SchemaBuilder.DropTable: delete(b.Schema.Tables, name).
DropTable(s, name) == Del(s, name)

\* The methods of a TableBuilder whose handle is table t of s.
AddColumnWithOptions(s, t, name, colType, null, pk, unique) ==
    Put(s, t, [s[t] EXCEPT !.Columns = Put(@, name, Column(name, colType, null, pk, unique))])

AddColumn(s, t, name, colType) == AddColumnWithOptions(s, t, name, colType, FALSE, FALSE, FALSE)

DropColumn(s, t, name) == Put(s, t, [s[t] EXCEPT !.Columns = Del(@, name)])

AddConstraint(s, t, expr) == Put(s, t, [s[t] EXCEPT !.Constraints = Append(@, expr)])

AddIndex(s, t, name) == Put(s, t, [s[t] EXCEPT !.Indexes = Append(@, name)])

\* TableBuilder.DropIndex: the table no longer has an index of that name.
DropIndex(s, t, name) == Put(s, t, [s[t] EXCEPT !.Indexes = SelectNot(@, name)])

\* RenameColumn moving the column to its new key without setting col.Name.
RenameColumn_KeepName(s, t, oldName, newName) ==
    IF oldName \in DOMAIN s[t].Columns
    THEN Put(s, t, [s[t] EXCEPT !.Columns = Del(Put(@, newName, @[oldName]), oldName)])
    ELSE s

\* TableBuilder.RenameColumn: a column that exists gets the new name and moves to
\* the new key (replacing a column already there); the old key is deleted.
RenameColumn(s, t, oldName, newName) ==
    IF oldName \in DOMAIN s[t].Columns
    THEN Put(s, t, [s[t] EXCEPT !.Columns =
                        Del(Put(@, newName, [@[oldName] EXCEPT !.Name = newName]), oldName)])
    ELSE s

\* TableBuilder.ModifyColumn: only a column that exists is changed.
ModifyColumn(s, t, name, colType, null, pk, unique) ==
    IF name \in DOMAIN s[t].Columns
    THEN Put(s, t, [s[t] EXCEPT !.Columns = Put(@, name,
             [@[name] EXCEPT !.Type = colType, !.Null = null, !.PK = pk, !.Unique = unique])])
    ELSE s

\* ------------------------------------------------------------------ parsed models
\* modelreflect.IndexInfo, Field and ParsedModel (the fields the diff engine reads).
IndexInfo(name, unique) == [Name |-> name, Unique |-> unique]
Field(name, goType, gormTag, indexes) ==
    [Name |-> name, Type |-> goType, GormTag |-> gormTag, Indexes |-> indexes]
ParsedModel(name, managed, fields, tableName) ==
    [Name |-> name, Managed |-> managed, Fields |-> fields, TableName |-> tableName]

\* toSnakeCase on the identifiers of the sample models: an all-uppercase name is
\* lowercased, otherwise every uppercase letter after the first gets a leading "_".
toSnakeCase(s) ==
    CASE s = "ID" -> "id"
      [] s = "Id" -> "id"
      [] s = "Email" -> "email"
      [] s = "Age" -> "age"
      [] s = "Sku" -> "sku"
      [] s = "SkuCode" -> "sku_code"
      [] s = "User" -> "user"
      [] s = "Product" -> "product"

\* ParsedModel.GetTableName: the TableName() override, else the snake-cased name.
GetTableName(m) == IF m.TableName # "" THEN m.TableName ELSE toSnakeCase(m.Name)

\* mapGoTypeToSQLType (after trimming spaces and one leading "*").
mapGoTypeToSQLType(goType) ==
    CASE goType = "string" -> "string"
      [] goType \in {"int", "int64"} -> "bigint"
      [] goType = "int8" -> "tinyint"
      [] goType = "int16" -> "smallint"
      [] goType = "int32" -> "integer"
      [] goType \in {"uint", "uint64"} -> "bigint"
      [] goType = "uint8" -> "tinyint"
      [] goType = "uint16" -> "smallint"
      [] goType = "uint32" -> "integer"
      [] goType \in {"float32", "float64"} -> "float"
      [] goType = "bool" -> "bool"
      [] goType = "time.Time" -> "timestamp"
      [] OTHER -> "string"

\* strings.Contains(gormTag, sub) on the gorm tags of the sample models, for the
\* substrings the diff engine looks for.
Contains(gormTag, sub) ==
    CASE gormTag = "" -> FALSE
      [] gormTag = "primaryKey" -> sub \in {"primaryKey"}
      [] gormTag = "not null" -> sub \in {"not null"}
      [] gormTag = "uniqueIndex" -> sub \in {"unique", "uniqueIndex"}
      [] gormTag = "unique;not null" -> sub \in {"unique", "not null"}
      [] gormTag = "index:idx_sku" -> FALSE
      [] gormTag = "index:idx_sku,unique" -> sub \in {"unique"}
      [] gormTag = "index:,unique" -> sub \in {"unique"}

\* isRequired, isPrimaryKey, isUnique as the diff package defines them.
isRequired(gormTag) == ~Contains(gormTag, "not null") /\ ~Contains(gormTag, "NOT NULL")
isPrimaryKey(gormTag) == Contains(gormTag, "primaryKey") \/ Contains(gormTag, "primary_key")
isUnique(gormTag) == Contains(gormTag, "unique") \/ Contains(gormTag, "uniqueIndex")

\* ------------------------------------------------------------------ diff engine
\* diff.ColumnDiff, IndexDiff, TableDiff and Diff.  Nil is a nil pointer field.
Nil == [nil |-> TRUE]
ColumnDiff(name, colType, oldType, null, pk, unique) ==
    [Name |-> name, Type |-> colType, OldType |-> oldType,
     Null |-> null, PK |-> pk, Unique |-> unique]
IndexDiff(name, unique, fields) == [Name |-> name, Unique |-> unique, Fields |-> fields]
TableDiff(name, columns, indexes) == [Name |-> name, Columns |-> columns, Indexes |-> indexes]
Diff(type, tableName, table, column, index) ==
    [Type |-> type, TableName |-> tableName, Table |-> table, Column |-> column, Index |-> index]

\* The orders in which `range` may visit the keys S of a Go map.
RECURSIVE Perms(_)
Perms(S) ==
    IF S = {} THEN {<<>>}
    ELSE UNION {{<<x>> \o p : p \in Perms(S \ {x})} : x \in S}

\* buildExpectedSchema, the loop over field.Indexes: a name seen before gets the
\* field appended (composite index), a new name a new IndexDiff.
RECURSIVE FieldIndexes(_, _, _)
FieldIndexes(tableIdx, colName, indexes) ==
    IF indexes = <<>> THEN tableIdx
    ELSE LET ix == Head(indexes)
             next == IF ix.Name \in DOMAIN tableIdx
                     THEN Put(tableIdx, ix.Name,
                              [tableIdx[ix.Name] EXCEPT !.Fields = Append(@, colName)])
                     ELSE Put(tableIdx, ix.Name, IndexDiff(ix.Name, ix.Unique, <<colName>>))
         IN FieldIndexes(next, colName, Tail(indexes))

\* buildExpectedSchema, the column built from one field.
ExpectedColumn(field) ==
    ColumnDiff(toSnakeCase(field.Name), mapGoTypeToSQLType(field.Type), "",
               ~isRequired(field.GormTag), isPrimaryKey(field.GormTag), isUnique(field.GormTag))

\* buildExpectedSchema, the loop over model.Fields: the columns in field order
\* and the table's index map.
RECURSIVE ExpectedFields(_, _, _)
ExpectedFields(fields, columns, tableIdx) ==
    IF fields = <<>> THEN [Columns |-> columns, Indexes |-> tableIdx]
    ELSE LET col == ExpectedColumn(Head(fields))
         IN ExpectedFields(Tail(fields), Append(columns, col),
                           FieldIndexes(tableIdx, col.Name, Head(fields).Indexes))

\* buildExpectedSchema, the loop over the models: unmanaged models are skipped; a
\* later model of the same table replaces the columns and shares the index map.
RECURSIVE ExpectedModels(_, _, _)
ExpectedModels(ms, expected, tableIndexes) ==
    IF ms = <<>> THEN expected
    ELSE LET model == Head(ms) IN
         IF ~model.Managed THEN ExpectedModels(Tail(ms), expected, tableIndexes)
         ELSE LET tableName == GetTableName(model)
                  idx0 == IF tableName \in DOMAIN tableIndexes
                          THEN tableIndexes[tableName] ELSE EmptyMap
                  r == ExpectedFields(model.Fields, <<>>, idx0)
                  ti == Put(tableIndexes, tableName, r.Indexes)
                  ex == Put(expected, tableName, TableDiff(tableName, r.Columns, r.Indexes))
              IN ExpectedModels(Tail(ms),
                                [t \in DOMAIN ex |-> [ex[t] EXCEPT !.Indexes = ti[t]]], ti)

buildExpectedSchema(ms) == ExpectedModels(ms, EmptyMap, EmptyMap)

\* compareColumns, first loop: add_column / modify_column in expected column order.
RECURSIVE AddOrModify(_, _, _)
AddOrModify(simulatedTable, tableName, columns) ==
    IF columns = <<>> THEN <<>>
    ELSE LET expectedCol == Head(columns)
             rest == AddOrModify(simulatedTable, tableName, Tail(columns))
         IN IF expectedCol.Name \notin DOMAIN simulatedTable.Columns
            THEN <<Diff("add_column", tableName, Nil, expectedCol, Nil)>> \o rest
            ELSE LET simCol == simulatedTable.Columns[expectedCol.Name] IN
                 IF \/ simCol.Type # expectedCol.Type
                    \/ simCol.Null # expectedCol.Null
                    \/ simCol.PK # expectedCol.PK
                    \/ simCol.Unique # expectedCol.Unique
                 THEN <<Diff("modify_column", tableName, Nil,
                             [expectedCol EXCEPT !.OldType = simCol.Type], Nil)>> \o rest
                 ELSE rest

\* compareColumns without its second loop: no column is dropped.
compareColumns_NoDrop(simulatedTable, expectedTable) ==
    {AddOrModify(simulatedTable, expectedTable.Name, expectedTable.Columns)}

\* compareColumns: the adds and modifies, then one drop_column (name only) per
\* simulated column not expected, in the map's range order.
compareColumns(simulatedTable, expectedTable) ==
    LET expectedCols == {expectedTable.Columns[i].Name : i \in 1..Len(expectedTable.Columns)}
        dropped == {c \in DOMAIN simulatedTable.Columns : c \notin expectedCols}
        head == AddOrModify(simulatedTable, expectedTable.Name, expectedTable.Columns)
    IN {head \o [i \in 1..Len(p) |->
                    Diff("drop_column", expectedTable.Name, Nil,
                         ColumnDiff(p[i], "", "", FALSE, FALSE, FALSE), Nil)]
        : p \in Perms(dropped)}

\* compareIndexes: by index name only; add_index in the expected map's range
\* order, then drop_index (name only) in the simulated name map's range order.
compareIndexes(simulatedTable, expectedTable, tableName) ==
    LET simulatedIndexMap == Range(simulatedTable.Indexes)
        toAdd == {i \in DOMAIN expectedTable.Indexes : i \notin simulatedIndexMap}
        toDrop == {i \in simulatedIndexMap : i \notin DOMAIN expectedTable.Indexes}
    IN {[i \in 1..Len(a) |-> Diff("add_index", tableName, Nil, Nil, expectedTable.Indexes[a[i]])]
        \o [i \in 1..Len(d) |-> Diff("drop_index", tableName, Nil, Nil, IndexDiff(d[i], FALSE, <<>>))]
        : a \in Perms(toAdd), d \in Perms(toDrop)}

\* CompareSchema creating an absent table without its columns.
CompareTable_CreateEmpty(simulatedSchema, expectedTable) ==
    IF ~TableExists(simulatedSchema, expectedTable.Name)
    THEN {<<Diff("create_table", expectedTable.Name,
                 [expectedTable EXCEPT !.Columns = <<>>], Nil, Nil)>>}
    ELSE LET simulatedTable == simulatedSchema[expectedTable.Name]
         IN {c \o i : c \in compareColumns(simulatedTable, expectedTable),
                      i \in compareIndexes(simulatedTable, expectedTable, expectedTable.Name)}

\* CompareSchema, the body of the first loop for one expected table.
CompareTable(simulatedSchema, expectedTable) ==
    IF ~TableExists(simulatedSchema, expectedTable.Name)
    THEN {<<Diff("create_table", expectedTable.Name, expectedTable, Nil, Nil)>>}
    ELSE LET simulatedTable == simulatedSchema[expectedTable.Name]
         IN {c \o i : c \in compareColumns(simulatedTable, expectedTable),
                      i \in compareIndexes(simulatedTable, expectedTable, expectedTable.Name)}

RECURSIVE CompareTables(_, _, _)
CompareTables(simulatedSchema, expectedSchema, order) ==
    IF order = <<>> THEN {<<>>}
    ELSE {h \o t : h \in CompareTable(simulatedSchema, expectedSchema[Head(order)]),
                   t \in CompareTables(simulatedSchema, expectedSchema, Tail(order))}

\* CompareSchema: every diff list the call can return.  Both loops range over Go
\* maps, so the tables come in any order; the drop_table diffs follow the rest.
CompareSchema(simulatedSchema, ms) ==
    LET expectedSchema == buildExpectedSchema(ms)
        gone == {t \in DOMAIN simulatedSchema : t \notin DOMAIN expectedSchema}
    IN UNION {{ds \o [i \in 1..Len(g) |-> Diff("drop_table", g[i], Nil, Nil, Nil)]
               : ds \in CompareTables(simulatedSchema, expectedSchema, order), g \in Perms(gone)}
              : order \in Perms(DOMAIN expectedSchema)}

\* ------------------------------------------------------------------ generator
\* One builder call of a simulation block, as written in a migration file: the
\* method, the table of its receiver and its arguments (name and colType are the
\* first and second string argument, the new name for RenameColumn).
SimCall(method, table, name, colType, null, pk, unique) ==
    [method |-> method, table |-> table, name |-> name, colType |-> colType,
     null |-> null, pk |-> pk, unique |-> unique]
OnSim(method, table) == SimCall(method, table, "", "", FALSE, FALSE, FALSE)
OnTable(method, table, name) == SimCall(method, table, name, "", FALSE, FALSE, FALSE)
WithOptions(method, table, col) ==
    SimCall(method, table, col.Name, col.Type, col.Null, col.PK, col.Unique)

\* generateUpSimulation writing the old type in the ModifyColumn call.
UpSimulationOf_ModifyOldType(d) ==
    CASE d.Type = "create_table" ->
           <<OnSim("CreateTable", d.TableName)>>
           \o [i \in 1..Len(d.Table.Columns) |->
                 WithOptions("AddColumnWithOptions", d.TableName, d.Table.Columns[i])]
      [] d.Type = "drop_table" -> <<OnSim("DropTable", d.TableName)>>
      [] d.Type = "add_column" ->
           <<OnSim("AlterTable", d.TableName),
             WithOptions("AddColumnWithOptions", d.TableName, d.Column)>>
      [] d.Type = "drop_column" ->
           <<OnSim("AlterTable", d.TableName), OnTable("DropColumn", d.TableName, d.Column.Name)>>
      [] d.Type = "modify_column" ->
           <<OnSim("AlterTable", d.TableName),
             WithOptions("ModifyColumn", d.TableName, [d.Column EXCEPT !.Type = d.Column.OldType])>>
      [] d.Type = "add_index" ->
           <<OnSim("AlterTable", d.TableName), OnTable("AddIndex", d.TableName, d.Index.Name)>>
      [] d.Type = "drop_index" ->
           <<OnSim("AlterTable", d.TableName), OnTable("DropIndex", d.TableName, d.Index.Name)>>
      [] OTHER -> <<>>

\* generateUpSimulation, the switch on d.Type: the calls written for one diff.
\* create_table writes the CreateTable call chained with one AddColumnWithOptions
\* per column, and nothing for the table's indexes.  Names are written quoted and
\* flags with %v; they are lowercase identifiers and booleans here, which the
\* loader reads back unchanged.
UpSimulationOf(d) ==
    CASE d.Type = "create_table" ->
           <<OnSim("CreateTable", d.TableName)>>
           \o [i \in 1..Len(d.Table.Columns) |->
                 WithOptions("AddColumnWithOptions", d.TableName, d.Table.Columns[i])]
      [] d.Type = "drop_table" -> <<OnSim("DropTable", d.TableName)>>
      [] d.Type = "add_column" ->
           <<OnSim("AlterTable", d.TableName),
             WithOptions("AddColumnWithOptions", d.TableName, d.Column)>>
      [] d.Type = "drop_column" ->
           <<OnSim("AlterTable", d.TableName), OnTable("DropColumn", d.TableName, d.Column.Name)>>
      [] d.Type = "modify_column" ->
           <<OnSim("AlterTable", d.TableName), WithOptions("ModifyColumn", d.TableName, d.Column)>>
      [] d.Type = "add_index" ->
           IF d.Index # Nil
           THEN <<OnSim("AlterTable", d.TableName), OnTable("AddIndex", d.TableName, d.Index.Name)>>
           ELSE <<>>
      [] d.Type = "drop_index" ->
           IF d.Index # Nil
           THEN <<OnSim("AlterTable", d.TableName), OnTable("DropIndex", d.TableName, d.Index.Name)>>
           ELSE <<>>
      [] OTHER -> <<>>

\* generateUpSimulation: the calls for the diffs, in diff order.
RECURSIVE generateUpSimulation(_)
generateUpSimulation(ds) ==
    IF ds = <<>> THEN <<>> ELSE UpSimulationOf(Head(ds)) \o generateUpSimulation(Tail(ds))

\* generateDownSimulation, the switch on d.Type: the calls written for the reverse
\* of one diff.  drop_table writes a bare CreateTable; drop_column writes the
\* column back from the diff's ColumnDiff; modify_column writes the old type
\* with the diff's Null, PK and Unique.
DownSimulationOf(d) ==
    CASE d.Type = "create_table" -> <<OnSim("DropTable", d.TableName)>>
      [] d.Type = "drop_table" -> <<OnSim("CreateTable", d.TableName)>>
      [] d.Type = "add_column" ->
           <<OnSim("AlterTable", d.TableName), OnTable("DropColumn", d.TableName, d.Column.Name)>>
      [] d.Type = "drop_column" ->
           <<OnSim("AlterTable", d.TableName),
             WithOptions("AddColumnWithOptions", d.TableName, d.Column)>>
      [] d.Type = "modify_column" ->
           <<OnSim("AlterTable", d.TableName),
             WithOptions("ModifyColumn", d.TableName, [d.Column EXCEPT !.Type = d.Column.OldType])>>
      [] d.Type = "add_index" ->
           IF d.Index # Nil
           THEN <<OnSim("AlterTable", d.TableName), OnTable("DropIndex", d.TableName, d.Index.Name)>>
           ELSE <<>>
      [] d.Type = "drop_index" ->
           IF d.Index # Nil
           THEN <<OnSim("AlterTable", d.TableName), OnTable("AddIndex", d.TableName, d.Index.Name)>>
           ELSE <<>>
      [] OTHER -> <<>>

\* generateDownSimulation: the reverse calls for the diffs, last diff first.
RECURSIVE generateDownSimulation(_)
generateDownSimulation(ds) ==
    IF ds = <<>> THEN <<>>
    ELSE DownSimulationOf(ds[Len(ds)]) \o generateDownSimulation(SubSeq(ds, 1, Len(ds) - 1))

\* ------------------------------------------------------------------ loader
\* executeSchemaBuilderMethod / executeSchemaBuilderMethodForChaining.
executeSchemaBuilderMethod(s, c) ==
    CASE c.method = "CreateTable" -> CreateTable(s, c.table)
      [] c.method = "AlterTable" -> AlterTable(s, c.table)
      [] c.method = "DropTable" -> DropTable(s, c.table)
      [] OTHER -> s

\* executeTableBuilderMethod: a call with an empty name (or column type) is skipped.
executeTableBuilderMethod(s, c) ==
    CASE c.method = "AddColumn" ->
           IF c.name # "" /\ c.colType # "" THEN AddColumn(s, c.table, c.name, c.colType) ELSE s
      [] c.method = "AddColumnWithOptions" ->
           IF c.name # "" /\ c.colType # ""
           THEN AddColumnWithOptions(s, c.table, c.name, c.colType, c.null, c.pk, c.unique)
           ELSE s
      [] c.method = "DropColumn" -> IF c.name # "" THEN DropColumn(s, c.table, c.name) ELSE s
      [] c.method = "AddIndex" -> IF c.name # "" THEN AddIndex(s, c.table, c.name) ELSE s
      [] c.method = "DropIndex" -> IF c.name # "" THEN DropIndex(s, c.table, c.name) ELSE s
      [] c.method = "ModifyColumn" ->
           IF c.name # "" /\ c.colType # ""
           THEN ModifyColumn(s, c.table, c.name, c.colType, c.null, c.pk, c.unique)
           ELSE s
      [] c.method = "RenameColumn" ->
           IF c.name # "" /\ c.colType # ""
           THEN RenameColumn(s, c.table, c.name, c.colType)
           ELSE s
      [] c.method = "AddConstraint" -> IF c.name # "" THEN AddConstraint(s, c.table, c.name) ELSE s
      [] OTHER -> s

\* interpretSimulationBlock: the calls of the block, in order, on the builder.
RECURSIVE interpretSimulationBlock(_, _)
interpretSimulationBlock(block, s) ==
    IF block = <<>> THEN s
    ELSE LET c == Head(block)
             s1 == IF c.method \in {"CreateTable", "AlterTable", "DropTable"}
                   THEN executeSchemaBuilderMethod(s, c)
                   ELSE executeTableBuilderMethod(s, c)
         IN interpretSimulationBlock(Tail(block), s1)

\* One call of a simulation block executed as the Go statement it is: the
\* builder method is called with the arguments as written.
DirectCall(s, c) ==
    CASE c.method = "CreateTable" -> CreateTable(s, c.table)
      [] c.method = "AlterTable" -> AlterTable(s, c.table)
      [] c.method = "DropTable" -> DropTable(s, c.table)
      [] c.method = "AddColumn" -> AddColumn(s, c.table, c.name, c.colType)
      [] c.method = "AddColumnWithOptions" ->
           AddColumnWithOptions(s, c.table, c.name, c.colType, c.null, c.pk, c.unique)
      [] c.method = "DropColumn" -> DropColumn(s, c.table, c.name)
      [] c.method = "AddIndex" -> AddIndex(s, c.table, c.name)
      [] c.method = "DropIndex" -> DropIndex(s, c.table, c.name)
      [] c.method = "ModifyColumn" ->
           ModifyColumn(s, c.table, c.name, c.colType, c.null, c.pk, c.unique)
      [] c.method = "RenameColumn" -> RenameColumn(s, c.table, c.name, c.colType)
      [] c.method = "AddConstraint" -> AddConstraint(s, c.table, c.name)
      [] OTHER -> s

\* The statements of a simulation block executed in order on the builder.
RECURSIVE Direct(_, _)
Direct(block, s) ==
    IF block = <<>> THEN s ELSE Direct(Tail(block), DirectCall(s, Head(block)))

\* ASTMigration: a migration file as the loader reads it.
ASTMigration(version, upCode) == [version |-> version, upCode |-> upCode]

\* A loader that misses the newest file of the directory.
LoadMigrationsFromAST_SkipNewest(files) ==
    [v \in {files[i].version : i \in 1..(Len(files) - 1)} |->
        (CHOOSE m \in Range(files) : m.version = v)]

\* LoadMigrationsFromAST: a registry, keyed by version, of the files of the directory.
LoadMigrationsFromAST(files) ==
    [v \in {files[i].version : i \in 1..Len(files)} |->
        (CHOOSE m \in Range(files) : m.version = v)]

\* Runner.SimulateSchema: Up of every registered migration, in GetAllMigrations
\* order, on one fresh builder.
\* The loop over migrations[lo..hi], split in halves so that a long log is
\* replayed with little nesting: the first half is replayed, then the second
\* half on its result.
RECURSIVE SimulateRange(_, _, _, _, _)
SimulateRange(reg, order, lo, hi, s) ==
    IF lo > hi THEN s
    ELSE IF lo = hi THEN interpretSimulationBlock(reg[order[lo]].upCode, s)
    ELSE LET mid == (lo + hi) \div 2
         IN CHOOSE r \in { SimulateRange(reg, order, mid + 1, hi, half) :
                             half \in {SimulateRange(reg, order, lo, mid, s)} } : TRUE

SimulateFrom(reg, order, s) == SimulateRange(reg, order, 1, Len(order), s)

SimulateSchema(reg) == SimulateFrom(reg, GetAllMigrations(DOMAIN reg), NewSchemaBuilder)

\* ------------------------------------------------------------------ the builder, call by call
\* The names and types the calls are made with.
TableNames == {"user", "product"}
ColumnNames(t) == IF t = "user" THEN {"id", "email"} ELSE {"sku"}

\* One call on the builder: it meets the state `builder` and leaves `after`.
BuilderCall(c, after) ==
    /\ builder # NilBuilder
    /\ builder' = after
    /\ called' = [call |-> c, before |-> builder]
    /\ UNCHANGED <<spc, allMigrations, simIdx, simCalls, simResult, returned>>
    /\ UNCHANGED <<rvars, dvars, avars>>

\* schema.NewSchemaBuilder().
CallNewSchemaBuilder ==
    /\ builder' = NewSchemaBuilder
    /\ called' = [call |-> OnSim("NewSchemaBuilder", ""), before |-> builder]
    /\ UNCHANGED <<spc, allMigrations, simIdx, simCalls, simResult, returned>>
    /\ UNCHANGED <<rvars, dvars, avars>>

\* The methods of the SchemaBuilder.
CallCreateTable(t) == BuilderCall(OnSim("CreateTable", t), CreateTable(builder, t))
CallAlterTable(t) == BuilderCall(OnSim("AlterTable", t), AlterTable(builder, t))
CallDropTable(t) == BuilderCall(OnSim("DropTable", t), DropTable(builder, t))

\* The methods of a TableBuilder: the handle is one that CreateTable or
\* AlterTable returned for a table the state still holds.  (A handle kept
\* after its table was dropped or replaced works on a table that is no longer
\* part of the state.)
CallAddColumn(t, name) ==
    /\ TableExists(builder, t)
    /\ BuilderCall(SimCall("AddColumn", t, name, "int", FALSE, FALSE, FALSE),
                   AddColumn(builder, t, name, "int"))

CallAddColumnWithOptions(t, name) ==
    /\ TableExists(builder, t)
    /\ BuilderCall(SimCall("AddColumnWithOptions", t, name, "text", TRUE, TRUE, TRUE),
                   AddColumnWithOptions(builder, t, name, "text", TRUE, TRUE, TRUE))

CallDropColumn(t, name) ==
    /\ TableExists(builder, t)
    /\ BuilderCall(OnTable("DropColumn", t, name), DropColumn(builder, t, name))

CallAddConstraint(t) ==
    /\ TableExists(builder, t)
    /\ Len(builder[t].Constraints) < MaxListed
    /\ BuilderCall(OnTable("AddConstraint", t, "chk_price"), AddConstraint(builder, t, "chk_price"))

CallAddIndex(t) ==
    /\ TableExists(builder, t)
    /\ Len(builder[t].Indexes) < MaxListed
    /\ BuilderCall(OnTable("AddIndex", t, "idx_email"), AddIndex(builder, t, "idx_email"))

CallDropIndex(t) ==
    /\ TableExists(builder, t)
    /\ BuilderCall(OnTable("DropIndex", t, "idx_email"), DropIndex(builder, t, "idx_email"))

CallRenameColumn(t, oldName, newName) ==
    /\ TableExists(builder, t)
    /\ BuilderCall(SimCall("RenameColumn", t, oldName, newName, FALSE, FALSE, FALSE),
                   RenameColumn(builder, t, oldName, newName))

CallModifyColumn(t, name) ==
    /\ TableExists(builder, t)
    /\ BuilderCall(SimCall("ModifyColumn", t, name, "text", TRUE, TRUE, TRUE),
                   ModifyColumn(builder, t, name, "text", TRUE, TRUE, TRUE))

\* A program (a migration's Up, a test) working on one builder, call after call.
NextBuilder ==
    \/ CallNewSchemaBuilder
    \/ \E t \in TableNames : CallCreateTable(t)
    \/ \E t \in TableNames : CallAlterTable(t)
    \/ \E t \in TableNames : CallDropTable(t)
    \/ \E t \in TableNames : \E name \in ColumnNames(t) : CallAddColumn(t, name)
    \/ \E t \in TableNames : \E name \in ColumnNames(t) : CallAddColumnWithOptions(t, name)
    \/ \E t \in TableNames : \E name \in ColumnNames(t) : CallDropColumn(t, name)
    \/ \E t \in TableNames : CallAddConstraint(t)
    \/ \E t \in TableNames : CallAddIndex(t)
    \/ \E t \in TableNames : CallDropIndex(t)
    \/ \E t \in TableNames : \E oldName \in ColumnNames(t), newName \in ColumnNames(t) :
           CallRenameColumn(t, oldName, newName)
    \/ \E t \in TableNames : \E name \in ColumnNames(t) : CallModifyColumn(t, name)

SpecBuilder == Init /\ [][NextBuilder]_vars

\* ------------------------------------------------------------------ SimulateSchema, step by step
\* The simulation block of the Up method of the migration registered under a
\* version (sample migrations).
UpCodeOf(v) ==
    CASE v = 1 -> <<OnSim("CreateTable", "user"),
                    SimCall("AddColumn", "user", "id", "uint", FALSE, FALSE, FALSE)>>
      [] v = 2 -> <<OnSim("AlterTable", "user"),
                    SimCall("AddColumnWithOptions", "user", "email", "string", FALSE, FALSE, TRUE),
                    OnSim("AlterTable", "user"), OnTable("AddIndex", "user", "idx_email")>>
      [] v = 3 -> <<OnSim("AlterTable", "user"), OnTable("DropColumn", "user", "id")>>
      [] OTHER -> <<OnSim("DropTable", "user"), OnSim("CreateTable", "product")>>

\* The registry of a simulation Runner: the registered versions with their migrations.
RegistryOf(reg) == [v \in reg |-> ASTMigration(v, UpCodeOf(v))]

\* SimulateSchema going on with the builder an earlier call returned.
SimulateSchemaBegin_ReuseBuilder ==
    /\ spc = "idle"
    /\ spc' = "run"
    /\ builder' = IF returned = <<>> THEN NewSchemaBuilder ELSE returned[Len(returned)].state
    /\ allMigrations' = GetAllMigrations(registry)
    /\ simIdx' = 1
    /\ simCalls' = <<>>
    /\ simResult' = SimRet(NilBuilder, "none", NoVersion)
    /\ UNCHANGED returned
    /\ UNCHANGED <<rvars, dvars, avars, called>>

\* SimulateSchema up to its loop: builder := schema.NewSchemaBuilder() and
\* allMigrations := r.registry.GetAllMigrations().
SimulateSchemaBegin ==
    /\ spc = "idle"
    /\ spc' = "run"
    /\ builder' = NewSchemaBuilder
    /\ allMigrations' = GetAllMigrations(registry)
    /\ simIdx' = 1
    /\ simCalls' = <<>>
    /\ simResult' = SimRet(NilBuilder, "none", NoVersion)
    /\ UNCHANGED returned
    /\ UNCHANGED <<rvars, dvars, avars, called>>

\* The loop body going on after an Up that returned an error, with whatever
\* part of its block that Up ran.
SimulateSchemaUp_IgnoreError ==
    /\ spc = "run"
    /\ simIdx <= Len(allMigrations)
    /\ LET m == RegistryOf(registry)[allMigrations[simIdx]] IN
        \E upOk \in BOOLEAN : \E done \in 0..Len(m.upCode) :
            /\ upOk => done = Len(m.upCode)
            /\ simCalls' = Append(simCalls, Call(m.version, upOk))
            /\ builder' = interpretSimulationBlock(SubSeq(m.upCode, 1, done), builder)
            /\ simIdx' = simIdx + 1
            /\ UNCHANGED <<spc, simResult>>
    /\ UNCHANGED <<allMigrations, returned>>
    /\ UNCHANGED <<rvars, dvars, avars, called>>

\* One round of the loop: callMigrationUp(m, builder) for m = allMigrations[simIdx].
\* Up runs its simulation block on the builder, or returns an error; on an
\* error SimulateSchema returns nil and an error naming m.Version() (whatever
\* Up did to the local builder goes with it), otherwise the loop goes on.
SimulateSchemaUp ==
    /\ spc = "run"
    /\ simIdx <= Len(allMigrations)
    /\ LET m == RegistryOf(registry)[allMigrations[simIdx]] IN
        \E upOk \in BOOLEAN :
            /\ simCalls' = Append(simCalls, Call(m.version, upOk))
            /\ IF upOk
               THEN /\ builder' = interpretSimulationBlock(m.upCode, builder)
                    /\ simIdx' = simIdx + 1
                    /\ UNCHANGED <<spc, simResult>>
               ELSE /\ builder' = NilBuilder
                    /\ simIdx' = simIdx
                    /\ spc' = "idle"
                    /\ simResult' = SimRet(NilBuilder, "simulate", m.version)
    /\ UNCHANGED <<allMigrations, returned>>
    /\ UNCHANGED <<rvars, dvars, avars, called>>

\* The results kept: the latest MaxReturned.
LastReturned(s) == IF Len(s) > MaxReturned THEN SubSeq(s, Len(s) - MaxReturned + 1, Len(s)) ELSE s

\* SimulateSchema after its loop: return builder, nil.
SimulateSchemaReturn ==
    /\ spc = "run"
    /\ simIdx > Len(allMigrations)
    /\ spc' = "idle"
    /\ simResult' = SimRet(builder, "ok", NoVersion)
    /\ returned' = LastReturned(Append(returned, [reg |-> registry, state |-> builder]))
    /\ builder' = NilBuilder
    /\ UNCHANGED <<allMigrations, simIdx, simCalls>>
    /\ UNCHANGED <<rvars, dvars, avars, called>>

\* Migrations are registered in any order, and SimulateSchema is called any
\* number of times between the registrations.
NextSimulate ==
    \/ \E v \in Versions : spc = "idle" /\ RegisterMigration(v)
    \/ SimulateSchemaBegin
    \/ SimulateSchemaUp
    \/ SimulateSchemaReturn

SpecSimulate == Init /\ [][NextSimulate]_vars

\* ------------------------------------------------------------------ makemigrations
\* Bound on the number of migration files.
MaxEntries == 3

\* maxIterations of the makemigrations loop.
maxIterations == 100

\* Sample fields and models (the declared target schemas the loop is run on).
fID == Field("ID", "uint", "primaryKey", <<>>)
fEmail == Field("Email", "string", "uniqueIndex", <<IndexInfo("idx_email", TRUE)>>)
fEmailRequired == Field("Email", "string", "unique;not null", <<>>)
fAge == Field("Age", "int", "", <<>>)
fAge32 == Field("Age", "int32", "", <<>>)
fSku == Field("Sku", "string", "index:idx_sku", <<IndexInfo("idx_sku", FALSE)>>)
fSkuCode == Field("SkuCode", "*string", "index:idx_sku", <<IndexInfo("idx_sku", FALSE)>>)
fId == Field("Id", "string", "", <<>>)
fAgeUint == Field("Age", "uint", "", <<>>)

UserModels ==
    { ParsedModel("User", TRUE, <<fID, fEmail>>, ""),
      ParsedModel("User", TRUE, <<fID, fEmailRequired, fAge>>, ""),
      ParsedModel("User", TRUE, <<fID, fAge32>>, ""),
      ParsedModel("User", TRUE, <<fID, fAgeUint>>, "") }
ProductModels ==
    { ParsedModel("Product", TRUE, <<fID, fSku, fSkuCode>>, ""),
      ParsedModel("Product", TRUE, <<fSku>>, "product"),
      ParsedModel("Product", FALSE, <<fID, fSku>>, "") }

\* What ParseModelsFromDir can return: no model, one model, or a Product and a
\* User model.
Targets ==
    {<<>>} \cup {<<u>> : u \in UserModels} \cup {<<q>> : q \in ProductModels}
    \cup {<<q, u>> : u \in UserModels, q \in ProductModels}

\* Models with two fields whose names snake-case to the same column name.
ClashingTargets ==
    { <<ParsedModel("User", TRUE, <<fID, fId>>, "")>>,
      <<ParsedModel("Product", TRUE, <<fId, fSku, fID>>, "")>> }

\* A field tagged with an index that has options and no name: the name
\* parseIndexesFromGormTag takes is the text before the first comma.
fEmailUnnamed == Field("Email", "string", "index:,unique", <<IndexInfo("", TRUE)>>)

\* Models with indexed fields, the index named or not.
IndexTargets ==
    { <<ParsedModel("User", TRUE, <<fID, fEmail>>, "")>>,
      <<ParsedModel("Product", TRUE, <<fID, fSku, fSkuCode>>, "")>>,
      <<ParsedModel("User", TRUE, <<fID, fEmailUnnamed>>, "")>> }

\* Simulation blocks of migrations written by hand (makemigrations --empty).
HandWritten ==
    { <<OnSim("CreateTable", "user"), SimCall("AddColumn", "user", "id", "uint", FALSE, FALSE, FALSE)>>,
      <<OnSim("AlterTable", "product"), OnTable("AddIndex", "product", "idx_old"),
        OnTable("AddConstraint", "product", "chk_price")>>,
      <<OnSim("AlterTable", "user"),
        SimCall("RenameColumn", "user", "email", "mail", FALSE, FALSE, FALSE)>>,
      <<OnSim("CreateTable", "user"),
        SimCall("AddColumnWithOptions", "user", "id", "uint", FALSE, TRUE, FALSE),
        SimCall("AddColumn", "user", "age", "int", FALSE, FALSE, FALSE)>> }

\* makemigrationsCmd: the managed models among the parsed ones.
ManagedModels(ms) == SelectSeq(ms, LAMBDA m : m.Managed)

\* The version generateVersion gives a new file: greater than every version on disk.
NextVersion(files) == Len(files) + 1

LoopIdle == lpc \in {"idle", "success", "failed"}

\* A migration file written by hand is added to the migrations directory.
WriteMigration(code) ==
    /\ LoopIdle
    /\ Len(log) < MaxEntries
    /\ log' = Append(log, ASTMigration(NextVersion(log), code))
    /\ log0' = log'
    /\ lpc' = "idle"
    /\ iteration' = 0
    /\ diffs' = <<>>
    /\ UNCHANGED models
    /\ UNCHANGED <<rvars, avars, svars>>

\* makemigrationsCmd up to the loop: the models are parsed once.
MakemigrationsBegin(ms) ==
    /\ LoopIdle
    /\ Len(log) < MaxEntries
    /\ models' = ms
    /\ log0' = log
    /\ lpc' = "loop"
    /\ iteration' = 0
    /\ diffs' = <<>>
    /\ UNCHANGED log
    /\ UNCHANGED <<rvars, avars, svars>>

MakemigrationsIterate_CapOffByOne ==
    /\ lpc = "loop"
    /\ iteration' = iteration + 1
    /\ IF iteration' >= maxIterations
       THEN /\ lpc' = "failed"
            /\ UNCHANGED <<log, diffs>>
       ELSE LET registryAST == LoadMigrationsFromAST(log)
                simulatedSchema == SimulateSchema(registryAST)
            IN \E ds \in CompareSchema(simulatedSchema, ManagedModels(models)) :
                  /\ diffs' = ds
                  /\ IF Len(ds) = 0
                     THEN /\ lpc' = "success"
                          /\ UNCHANGED log
                     ELSE /\ log' = Append(log, ASTMigration(NextVersion(log), generateUpSimulation(ds)))
                          /\ lpc' = "loop"
    /\ UNCHANGED <<models, log0>>
    /\ UNCHANGED <<rvars, avars, svars>>

\* One iteration of the loop: reload the files, simulate, compare, and stop on an
\* empty diff or write one migration from the diffs and go round again.
MakemigrationsIterate ==
    /\ lpc = "loop"
    /\ iteration' = iteration + 1
    /\ IF iteration' > maxIterations
       THEN /\ lpc' = "failed"
            /\ UNCHANGED <<log, diffs>>
       ELSE LET registryAST == LoadMigrationsFromAST(log)
                simulatedSchema == SimulateSchema(registryAST)
            IN \E ds \in CompareSchema(simulatedSchema, ManagedModels(models)) :
                  /\ diffs' = ds
                  /\ IF Len(ds) = 0
                     THEN /\ lpc' = "success"
                          /\ UNCHANGED log
                     ELSE /\ log' = Append(log, ASTMigration(NextVersion(log), generateUpSimulation(ds)))
                          /\ lpc' = "loop"
    /\ UNCHANGED <<models, log0>>
    /\ UNCHANGED <<rvars, avars, svars>>

NextDiff ==
    \/ \E code \in HandWritten : WriteMigration(code)
    \/ \E ms \in Targets : MakemigrationsBegin(ms)
    \/ MakemigrationsIterate

SpecDiff == Init /\ [][NextDiff]_vars

\* One run of makemigrations on a directory with at most one hand-written file,
\* for any of the targets, those with clashing column names included.
NextLoop ==
    \/ \E code \in HandWritten : log = <<>> /\ WriteMigration(code)
    \/ \E ms \in Targets \cup ClashingTargets : lpc = "idle" /\ MakemigrationsBegin(ms)
    \/ MakemigrationsIterate

SpecLoop == Init /\ [][NextLoop]_vars

\* The for statement going round: while the loop runs its next iteration starts.
\* Every MakemigrationsIterate step is such a step, and it can be taken exactly
\* when the loop runs.
NextIteration == lpc = "loop" /\ iteration' = iteration + 1

\* The loop is sequential code of one goroutine: an iteration that can run does run.
SpecLoopFair == SpecLoop /\ WF_iteration(NextIteration)

\* One run of makemigrations for a model with indexed fields, on a directory
\* with at most one hand-written file.
NextInterpret ==
    \/ \E code \in HandWritten : log = <<>> /\ WriteMigration(code)
    \/ \E ms \in IndexTargets : lpc = "idle" /\ MakemigrationsBegin(ms)
    \/ MakemigrationsIterate

SpecInterpret == Init /\ [][NextInterpret]_vars

\* ------------------------------------------------------------------ version allocator
\* Strings of decimal digits are sequences of digits.
RECURSIVE Digits(_)
Digits(k) == IF k < 10 THEN <<k>> ELSE Append(Digits(k \div 10), k % 10)

RECURSIVE Zeros(_)
Zeros(k) == IF k <= 0 THEN <<>> ELSE <<0>> \o Zeros(k - 1)

\* fmt.Sprintf("%0<width>d", k) for k >= 0: zeros on the left up to width digits,
\* and every digit of k when it has more.
Sprintf0d(width, k) == Zeros(width - Len(Digits(k))) \o Digits(k)

\* The comparison of Go strings (s < t): byte by byte, a proper prefix is smaller.
RECURSIVE StringLess(_, _)
StringLess(s, t) ==
    IF t = <<>> THEN FALSE
    ELSE IF s = <<>> THEN TRUE
    ELSE IF Head(s) # Head(t) THEN Head(s) < Head(t)
    ELSE StringLess(Tail(s), Tail(t))

\* The local date and time of a second of the clock; the clock starts at
\* 2024-01-01 00:00:00 and stays within that day.
DateOf(t) ==
    [Year |-> 2024, Month |-> 1, Day |-> 1,
     Hour |-> t \div 3600, Minute |-> (t \div 60) % 60, Second |-> t % 60]

\* baseVersion: Sprintf("%04d%02d%02d%02d%02d%02d", Year, Month, Day, Hour, Minute, Second).
baseVersion(now) ==
    LET d == DateOf(now)
    IN Sprintf0d(4, d.Year) \o Sprintf0d(2, d.Month) \o Sprintf0d(2, d.Day)
       \o Sprintf0d(2, d.Hour) \o Sprintf0d(2, d.Minute) \o Sprintf0d(2, d.Second)

\* The last k elements of a sequence.
LastOf(s, k) == IF Len(s) <= k THEN s ELSE SubSeq(s, Len(s) - k + 1, Len(s))

\* The wall clock reaches its next second.
Tick ==
    /\ clock < MaxSecond
    /\ clock' = clock + 1
    /\ UNCHANGED <<versionCounter, lastSecond, versionMutex, calls, callsIn, issued>>
    /\ UNCHANGED <<rvars, dvars, svars, generated>>

\* A generateVersion that does not take the mutex.
GenerateVersionLock_NoMutex(g, gen) ==
    /\ calls[g].pc = "idle"
    /\ versionCounter < MaxSequence
    /\ calls' = [calls EXCEPT ![g] = [pc |-> "locked", gen |-> gen, now |-> 0, i |-> 0]]
    /\ UNCHANGED <<versionMutex, clock, versionCounter, lastSecond, callsIn, issued>>
    /\ UNCHANGED <<rvars, dvars, svars, generated>>

\* Goroutine g calls GenerateMigration on the Generator gen with diffs, which
\* calls generateVersion: versionMutex.Lock().
GenerateVersionLock(g, gen) ==
    /\ calls[g].pc = "idle"
    /\ versionCounter < MaxSequence
    /\ versionMutex = 0
    /\ versionMutex' = g
    /\ calls' = [calls EXCEPT ![g] = [pc |-> "locked", gen |-> gen, now |-> 0, i |-> 0]]
    /\ UNCHANGED <<clock, versionCounter, lastSecond, callsIn, issued>>
    /\ UNCHANGED <<rvars, dvars, svars, generated>>

\* The calls of generateVersion that have read the clock in second t, the
\* latest second of the clock.
CallsInSecond(t) == IF callsIn.second = t THEN callsIn.count ELSE 0

\* A generateVersion that keeps counting across seconds.
GenerateVersionReadClock_NoReset(g) ==
    /\ calls[g].pc = "locked"
    /\ lastSecond' = clock
    /\ callsIn' = [second |-> clock, count |-> CallsInSecond(clock) + 1]
    /\ calls' = [calls EXCEPT ![g].pc = "stamped", ![g].now = clock,
                               ![g].i = CallsInSecond(clock) + 1]
    /\ UNCHANGED <<clock, versionCounter, versionMutex, issued>>
    /\ UNCHANGED <<rvars, dvars, svars, generated>>

\* now := time.Now(); in a new second the counter is reset and the second noted.
GenerateVersionReadClock(g) ==
    /\ calls[g].pc = "locked"
    /\ IF clock # lastSecond
       THEN versionCounter' = 0 /\ lastSecond' = clock
       ELSE UNCHANGED <<versionCounter, lastSecond>>
    /\ callsIn' = [second |-> clock, count |-> CallsInSecond(clock) + 1]
    /\ calls' = [calls EXCEPT ![g].pc = "stamped", ![g].now = clock,
                               ![g].i = CallsInSecond(clock) + 1]
    /\ UNCHANGED <<clock, versionMutex, issued>>
    /\ UNCHANGED <<rvars, dvars, svars, generated>>

\* versionCounter++, the version is formatted and returned, and the deferred
\* Unlock runs.
GenerateVersionReturn(g) ==
    /\ calls[g].pc = "stamped"
    /\ versionCounter' = versionCounter + 1
    /\ issued' = LastOf(Append(issued,
                     [gen |-> calls[g].gen, goroutine |-> g, now |-> calls[g].now,
                      i |-> calls[g].i,
                      version |-> baseVersion(calls[g].now) \o Sprintf0d(4, versionCounter')]),
                   MaxIssued)
    /\ versionMutex' = 0
    /\ calls' = [calls EXCEPT ![g].pc = "idle"]
    /\ UNCHANGED <<clock, lastSecond, callsIn>>
    /\ UNCHANGED <<rvars, dvars, svars, generated>>

\* The diff lists GenerateMigration is called with: none, the create_table of
\* a User model, and the add_column that follows a hand-written migration.
SampleDiffs ==
    {<<>>}
    \cup CompareSchema(NewSchemaBuilder, <<ParsedModel("User", TRUE, <<fID, fEmail>>, "")>>)
    \cup CompareSchema(interpretSimulationBlock(
                          <<OnSim("CreateTable", "user"),
                            SimCall("AddColumnWithOptions", "user", "id", "bigint", FALSE, TRUE, FALSE)>>,
                          NewSchemaBuilder),
                      <<ParsedModel("User", TRUE, <<fID, fAge32>>, "")>>)

\* generateVersion as one step of the only goroutine: the counter after the call.
NextCounter == IF clock # lastSecond THEN 1 ELSE versionCounter + 1

\* GenerateMigration asking for a version before it looks at the diffs.
GenerateMigration_VersionFirst(ds) ==
    /\ versionMutex = 0
    /\ NextCounter <= MaxIssued
    /\ versionCounter' = NextCounter
    /\ lastSecond' = clock
    /\ callsIn' = [second |-> clock, count |-> CallsInSecond(clock) + 1]
    /\ issued' = LastOf(Append(issued,
                     [gen |-> "genA", goroutine |-> 1, now |-> clock,
                      i |-> CallsInSecond(clock) + 1,
                      version |-> baseVersion(clock) \o Sprintf0d(4, NextCounter)]),
                   MaxIssued)
    /\ IF Len(ds) = 0
       THEN /\ generated' = GenRet(ds, "nodiffs", <<>>)
            /\ UNCHANGED log
       ELSE /\ Len(log) < MaxEntries
            /\ generated' = GenRet(ds, "ok", baseVersion(clock) \o Sprintf0d(4, NextCounter))
            /\ log' = Append(log, ASTMigration(generated'.version, generateUpSimulation(ds)))
    /\ UNCHANGED <<clock, versionMutex, calls>>
    /\ UNCHANGED <<models, log0, lpc, iteration, diffs>>
    /\ UNCHANGED <<rvars, svars>>

\* Generator.GenerateMigration(name, diffs) called by the only goroutine: no
\* diffs is an error before anything else happens; otherwise a version is
\* taken, the directory made and the file written, either of which may fail.
GenerateMigration(ds) ==
    /\ versionMutex = 0
    /\ IF Len(ds) = 0
       THEN /\ generated' = GenRet(ds, "nodiffs", <<>>)
            /\ UNCHANGED <<log, versionCounter, lastSecond, callsIn, issued>>
       ELSE /\ NextCounter <= MaxIssued
            /\ Len(log) < MaxEntries
            /\ versionCounter' = NextCounter
            /\ lastSecond' = clock
            /\ callsIn' = [second |-> clock, count |-> CallsInSecond(clock) + 1]
            /\ LET version == baseVersion(clock) \o Sprintf0d(4, NextCounter) IN
                /\ issued' = LastOf(Append(issued,
                                 [gen |-> "genA", goroutine |-> 1, now |-> clock,
                                  i |-> CallsInSecond(clock) + 1, version |-> version]),
                               MaxIssued)
                /\ \E mkdirOk \in BOOLEAN, writeOk \in BOOLEAN :
                      IF ~mkdirOk
                      THEN generated' = GenRet(ds, "mkdir", <<>>) /\ UNCHANGED log
                      ELSE IF ~writeOk
                      THEN generated' = GenRet(ds, "write", <<>>) /\ UNCHANGED log
                      ELSE /\ generated' = GenRet(ds, "ok", version)
                           /\ log' = Append(log, ASTMigration(version, generateUpSimulation(ds)))
    /\ UNCHANGED <<clock, versionMutex, calls>>
    /\ UNCHANGED <<models, log0, lpc, iteration, diffs>>
    /\ UNCHANGED <<rvars, svars>>

\* One goroutine calling GenerateMigration with and without diffs as the
\* clock goes on.
NextGenerate ==
    \/ Tick
    \/ \E ds \in SampleDiffs : GenerateMigration(ds)

SpecGenerate == Init /\ [][NextGenerate]_vars

\* One goroutine calling one Generator again and again.
NextSequence ==
    \/ Tick
    \/ GenerateVersionLock(1, "genA")
    \/ GenerateVersionReadClock(1)
    \/ GenerateVersionReturn(1)

SpecSequence == Init /\ [][NextSequence]_vars

\* The calls begun so far.
Begun == Len(issued) + Cardinality({g \in Goroutines : calls[g].pc # "idle"})

\* Several goroutines calling several Generators, MaxIssued calls in all.
NextConcurrent ==
    \/ Tick
    \/ \E g \in Goroutines, gen \in Generators : Begun < MaxIssued /\ GenerateVersionLock(g, gen)
    \/ \E g \in Goroutines : GenerateVersionReadClock(g)
    \/ \E g \in Goroutines : GenerateVersionReturn(g)

SpecConcurrent == Init /\ [][NextConcurrent]_vars

\* ------------------------------------------------------------------ claims
\* Vocabulary of the claims about Migrate and Rollback.
UpVersions == [i \in 1..Len(ups) |-> ups[i].v]
DownVersions == [i \in 1..Len(downs) |-> downs[i].v]
InsertedByRun == Range(ledger) \ Range(ledger0)
DeletedByRun == Range(ledger0) \ Range(ledger)
Ascending(s) == \A i, j \in 1..Len(s) : i < j => s[i] < s[j]
Descending(s) == \A i, j \in 1..Len(s) : i < j => s[i] > s[j]
\* A Migrate that got past reading the ledger, running or returned.
MigrateRun == pc \in {"m_up", "m_rec"} \/ (pc = "done" /\ result.op = "migrate" /\ result.kind # "query")
MigrateDone(kind) == pc = "done" /\ result.op = "migrate" /\ result.kind = kind
\* A Rollback that got past reading a non-empty ledger, running or returned.
RollbackRun ==
    \/ pc \in {"r_down", "r_rem"}
    \/ (pc = "done" /\ result.op = "rollback" /\ result.kind \notin {"query", "empty"})
RollbackDone(kind) == pc = "done" /\ result.op = "rollback" /\ result.kind = kind
\* The versions whose Down returned nil in this run.
DownSucceeded == {downs[i].v : i \in {j \in 1..Len(downs) : downs[j].ok}}

\* C1: a ledger row for a version appears only in a step of Migrate that directly
\* follows a call of Up on that version which returned nil; so every row new since
\* the run began belongs to a version whose Up this run called and saw succeed.
C1_RecordOnlyAfterUpSucceeded ==
    [][\A v \in Versions :
          (v \in Range(ledger') /\ v \notin Range(ledger)) =>
              /\ ups # <<>>
              /\ ups[Len(ups)] = Call(v, TRUE)
              /\ ups' = ups]_vars

C1_Witness ==
    /\ MigrateDone("apply")
    /\ InsertedByRun # {}

\* C2: when Up fails, Migrate returns the apply error for that version, has called
\* Up on no later pending entry, has not recorded the failed entry and has kept the
\* rows of the entries applied before it in this run.
C2_AbortOnFirstFailure ==
    MigrateDone("apply") =>
        LET k == Len(ups) IN
        /\ k >= 1
        /\ ups[k] = Call(result.version, FALSE)
        /\ \A i \in 1..(k - 1) : ups[i].ok
        /\ UpVersions = SubSeq(pending, 1, k)
        /\ result.version \notin Range(ledger)
        /\ ledger = ledger0 \o SubSeq(pending, 1, k - 1)

C2_Witness ==
    /\ MigrateDone("apply")
    /\ Len(ups) = 2
    /\ Len(pending) = 3
    /\ InsertedByRun = {pending[1]}

\* C3: a Migrate that directly follows a failed Migrate calls Up only on entries
\* absent from the ledger, in ascending version order beginning with the entry the
\* failed run stopped at, and never on an entry the failed run recorded.
C3_ResumeAfterFailure ==
    (MigrateRun /\ prev.op = "migrate" /\ prev.kind \in {"apply", "record"}) =>
        /\ pending # <<>>
        /\ pending[1] = prev.version
        /\ UpVersions = SubSeq(pending, 1, Len(ups))
        /\ Ascending(UpVersions)
        /\ Range(UpVersions) \cap Range(ledger0) = {}
        /\ Range(UpVersions) \cap prev.changed = {}
        /\ prev.changed \subseteq Range(ledger0)

C3_Witness ==
    /\ MigrateDone("ok")
    /\ prev.op = "migrate"
    /\ prev.kind = "apply"
    /\ prev.changed # {}
    /\ Len(ups) = 2

\* C4: Migrate calls Up at most once per entry, in strictly ascending version
\* order, only on registered entries whose version was not in the ledger, never
\* skipping a smaller pending version; a Migrate that returns nil has called Up
\* on every such entry.
C4_UpOncePerPendingAscending ==
    MigrateRun =>
        LET expected == registry \ Range(ledger0) IN
        /\ Ascending(UpVersions)
        /\ Range(UpVersions) \subseteq expected
        /\ \A u \in Range(UpVersions) : \A v \in expected : v < u => v \in Range(UpVersions)
        /\ MigrateDone("ok") => Range(UpVersions) = expected

C4_Witness ==
    /\ MigrateDone("ok")
    /\ Len(ups) = 2
    /\ Range(ledger0) \cap registry # {}

C6_Claimed ==
    (pc = "done" /\ result.op = "rollback" /\ n0 > Len(ledger0)
        /\ result.kind \notin {"query", "notfound", "down", "remove"}) =>
        /\ result.kind = "ok"
        /\ Len(downs) = Len(ledger0)
        /\ ledger = <<>>

\* C6 as amended: with m >= 1 applied entries and n > m, Rollback clamps n to m and,
\* when it returns nil, has rolled back exactly the m applied entries; it fails only
\* where a ledger query, a registry lookup, a Down or a ledger delete fails.  With
\* m = 0 it rolls nothing back and returns an error.
C6_ClampToApplied ==
    (pc = "done" /\ result.op = "rollback" /\ n0 > Len(ledger0)) =>
        LET m == Len(ledger0) IN
        /\ m = 0 => /\ result.kind \in {"query", "empty"}
                    /\ downs = <<>>
                    /\ ledger = ledger0
        /\ m >= 1 => /\ result.kind \in {"ok", "query", "notfound", "down", "remove"}
                     /\ result.kind # "query" => n = m
                     /\ result.kind = "ok" =>
                            /\ Len(downs) = m
                            /\ Descending(DownVersions)
                            /\ Range(DownVersions) = Range(ledger0)
                            /\ ledger = <<>>

C6_Witness ==
    /\ RollbackDone("ok")
    /\ Len(ledger0) = 2
    /\ n0 > 2
    /\ Len(downs) = 2

\* C7 as claimed: when Rollback stops on a failure, the rows it has deleted are
\* exactly those of the entries whose Down succeeded.
C7_Claimed ==
    (pc = "done" /\ result.op = "rollback" /\ result.kind \in {"notfound", "down", "remove"}) =>
        /\ DeletedByRun = DownSucceeded
        /\ ledger = SelectNotIn(ledger0, DownSucceeded)

\* C8 as claimed: the entries Rollback(n) rolls back are the n most recently
\* applied ones, that is the last n rows the ledger received.
C8_Claimed ==
    (RollbackDone("ok") /\ n0 >= 1 /\ n0 <= Len(ledger0)) =>
        Range(DownVersions) = Range(SubSeq(ledger0, Len(ledger0) - n0 + 1, Len(ledger0)))

\* C8 as amended: Rollback works down the ledger in descending version order, so
\* the entries it has called Down on are always the applied entries with the
\* greatest versions, at most n of them; they are the most recently applied ones
\* whenever the rows were inserted in ascending version order.
C8_RollbackByVersion ==
    RollbackRun =>
        LET m == Len(ledger0)
            k == Len(downs) IN
        /\ k <= n
        /\ Descending(DownVersions)
        /\ Range(DownVersions) \subseteq Range(ledger0)
        /\ \A d \in Range(DownVersions) : \A v \in Range(ledger0) : v > d => v \in Range(DownVersions)
        /\ Ascending(ledger0) => DownVersions = Reverse(SubSeq(ledger0, m - k + 1, m))

C8_Witness ==
    /\ RollbackDone("ok")
    /\ ~Ascending(ledger0)
    /\ Len(ledger0) = 3
    /\ Len(downs) = 1
    /\ downs[1].v # ledger0[3]

\* The entries this Rollback has rolled back so far: Down returned nil and the
\* delete of the row has been carried out.
RolledBack ==
    {DownVersions[i] : i \in {j \in 1..Len(downs) :
        downs[j].ok /\ ~(j = Len(downs) /\ (pc = "r_rem" \/ RollbackDone("remove")))}}

\* C9: Rollback leaves the registry alone; every entry it has rolled back is still
\* registered and pending; and a Migrate that directly follows has exactly the
\* rolled-back entries among its pending ones that were applied before, and when
\* it returns nil has called Up on each of them and on nothing still in the ledger.

C9_RollbackKeepsLogEntries ==
    /\ [](RollbackRun =>
            /\ RolledBack \subseteq registry
            /\ RolledBack \cap Range(ledger) = {}
            /\ RolledBack \subseteq Range(PendingOf(registry, GetAppliedVersions(ledger))))
    /\ [](MigrateRun /\ prev.op = "rollback" =>
            /\ prev.changed \subseteq Range(pending)
            /\ Range(UpVersions) \cap Range(ledger0) = {}
            /\ MigrateDone("ok") => prev.changed \subseteq Range(UpVersions))
    /\ [][(pc \in {"r_down", "r_rem"} \/ pc' \in {"r_down", "r_rem"}) => registry' = registry]_vars

C9_Witness ==
    /\ MigrateDone("ok")
    /\ prev.op = "rollback"
    /\ Cardinality(prev.changed) = 2
    /\ ledger0 # <<>>
    /\ Range(UpVersions) = prev.changed

\* Vocabulary of the claims about the makemigrations loop.
\* The latest iteration wrote a migration from its diffs (D = diffs, L' = log).
Generated == lpc = "loop" /\ iteration >= 1

\* Every diff list CompareSchema can return for the replay of the files on disk
\* against the models of this run.
Rediff == CompareSchema(SimulateSchema(LoadMigrationsFromAST(log)), ManagedModels(models))

\* The (table, index name) pairs of the indexes declared on the tables D creates.
IndexesOfCreated ==
    UNION {{<<diffs[k].TableName, i>> : i \in DOMAIN diffs[k].Table.Indexes}
           : k \in {j \in 1..Len(diffs) : diffs[j].Type = "create_table"}}

\* C10 as claimed: once the entry generated from a non-empty D = Diff(Replay(L), S)
\* is appended to L, Diff(Replay(L'), S) is empty.
C10_Claimed == Generated => Rediff = {<<>>}

\* C10 (amended): after the entry generated from D is appended, Diff(Replay(L'), S)
\* holds exactly one add_index diff for every index declared on a table that D
\* creates and nothing else, so it is empty when D creates no table that declares
\* an index; the entry generated from that second diff leaves an empty diff, and
\* one run of the loop writes at most two entries.
C10_IdempotentUpToCreatedIndexes ==
    /\ Generated =>
         \A ds \in Rediff :
            /\ \A k \in 1..Len(ds) : ds[k].Type = "add_index"
            /\ {<<ds[k].TableName, ds[k].Index.Name>> : k \in 1..Len(ds)} = IndexesOfCreated
            /\ Len(ds) = Cardinality(IndexesOfCreated)
    /\ (Generated /\ iteration >= 2) => Rediff = {<<>>}
    /\ lpc = "loop" => iteration <= 2

\* A run over a non-empty log whose first diff creates a table declaring an index
\* (and alters or drops another table): the second diff is that index alone.
C10_Witness ==
    /\ Generated
    /\ iteration = 1
    /\ Len(log) >= 2
    /\ IndexesOfCreated # {}
    /\ \E k \in 1..Len(diffs) : diffs[k].Type # "create_table"
    /\ \A ds \in Rediff : Len(ds) = 1 /\ ds[1].Type = "add_index"

\* Entries the running (or last) makemigrations command has generated.
GeneratedEntries == Len(log) - Len(log0)

Replay(files) == SimulateSchema(LoadMigrationsFromAST(files))

C13_Claimed ==
    \A j \in 1..Len(issued) : \A k \in 1..(j - 1) :
        StringLess(issued[k].version, issued[j].version)

\* C14: the i-th call within one second of the clock returns the 14-digit stamp
\* of that second followed by i written as a zero-padded 4-digit number (18
\* digits in all), the first call of a new second having i = 1 again.
C14_Claimed ==
    \A j \in 1..Len(issued) :
        /\ issued[j].version = baseVersion(issued[j].now) \o Sprintf0d(4, issued[j].i)
        /\ Len(baseVersion(issued[j].now)) = 14
        /\ Len(issued[j].version) = 18

\* The goroutines inside generateVersion, between Lock and Unlock.
InGenerateVersion == {g \in Goroutines : calls[g].pc # "idle"}

\* C15: when several goroutines call the allocator concurrently, at most one of
\* them at a time is between reading and updating the last-second marker and
\* the counter (it holds the mutex), and no two calls return the same version.
C15_AtomicAndDistinct ==
    /\ Cardinality(InGenerateVersion) <= 1
    /\ \A g \in InGenerateVersion : versionMutex = g
    /\ \A j \in 1..Len(issued) : \A k \in 1..(j - 1) :
           issued[k].version # issued[j].version

C15_Witness ==
    /\ Len(issued) >= 2
    /\ issued[1].goroutine # issued[2].goroutine
    /\ issued[1].now = issued[2].now
    /\ InGenerateVersion # {}

\* Among the first j returned versions, those returned in the second of the
\* j-th one: through the same Generator, and through any Generator.
SameSecondSameGenerator(j) ==
    {k \in 1..j : issued[k].now = issued[j].now /\ issued[k].gen = issued[j].gen}
SameSecond(j) == {k \in 1..j : issued[k].now = issued[j].now}

\* The claim as written: each Generator value counts its own calls, so the
\* sequence number of a version is the number of calls made in that second
\* through the Generator that returned it.
C16_Claimed ==
    \A j \in 1..Len(issued) :
        issued[j].version =
            baseVersion(issued[j].now) \o Sprintf0d(4, Cardinality(SameSecondSameGenerator(j)))

\* C16: the last-second marker and the sequence counter are state of the
\* process, shared by every Generator value: the sequence number of a version
\* is the number of calls made in that second through all Generators together,
\* so a call through one Generator advances the counter the other one uses.
C16_SharedCounter ==
    \A j \in 1..Len(issued) :
        issued[j].version =
            baseVersion(issued[j].now) \o Sprintf0d(4, Cardinality(SameSecond(j)))

C16_Witness ==
    /\ Len(issued) >= 2
    /\ issued[1].gen # issued[2].gen
    /\ issued[1].now = issued[2].now
    /\ issued[2].version = baseVersion(issued[2].now) \o <<0, 0, 0, 2>>

\* C17: CompareSchema is deterministic: for one simulated state and one list of
\* target models there is a single diff list it can return.
C17_Claimed ==
    lpc = "loop" =>
        Cardinality(CompareSchema(Replay(log), ManagedModels(models))) = 1

\* The table, column and index names of the sample schemas in string order.
NamesInOrder ==
    <<"age", "email", "id", "idx_email", "idx_old", "idx_sku", "mail", "product",
      "sku", "sku_code", "user">>
NameRank(name) == CHOOSE r \in 1..Len(NamesInOrder) : NamesInOrder[r] = name

\* The place of a diff in the claimed order: table name, then kind, then the
\* name of the column or index.
KindRank(type) ==
    CASE type = "create_table" -> 0
      [] type = "add_column" -> 1
      [] type = "modify_column" -> 2
      [] type = "drop_column" -> 3
      [] type = "add_index" -> 4
      [] type = "drop_index" -> 5
      [] type = "drop_table" -> 6
DiffKey(d) ==
    <<NameRank(d.TableName), KindRank(d.Type),
      IF d.Type \in {"add_column", "modify_column", "drop_column"} THEN NameRank(d.Column.Name)
      ELSE IF d.Type \in {"add_index", "drop_index"} THEN NameRank(d.Index.Name)
      ELSE 0>>
KeyLeq(a, b) ==
    \/ a[1] < b[1]
    \/ a[1] = b[1] /\ a[2] < b[2]
    \/ a[1] = b[1] /\ a[2] = b[2] /\ a[3] <= b[3]

\* C18: the diff list CompareSchema returns is ordered by table name; for one
\* table create_table, then column adds, column modifies, column drops, index
\* adds, index drops, then drop_table, each group sorted by name.
C18_Claimed ==
    \A j \in 1..Len(diffs) : \A k \in 1..(j - 1) :
        KeyLeq(DiffKey(diffs[k]), DiffKey(diffs[j]))

\* The indexes of table t that the models ms declare, by name (none when ms
\* has no such table).
DeclaredIndexes(ms, t) ==
    LET expected == buildExpectedSchema(ManagedModels(ms))
    IN IF t \in DOMAIN expected THEN expected[t].Indexes ELSE EmptyMap

\* The log has converged to the models: the indexes of the replayed tables are
\* those the models declare.
Converged == lpc = "success"

\* C19: indexes are compared by their full IndexSpec: when the current table
\* (converged to the models) and a new target both have an index of one name
\* but with different uniqueness or fields, the diff for the new target has a
\* drop_index and an add_index of that name.
C19_Claimed ==
    Converged =>
        \A ms \in Targets : \A t \in DOMAIN Replay(log) :
            \A name \in (DOMAIN DeclaredIndexes(models, t)) \cap (DOMAIN DeclaredIndexes(ms, t)) :
                (/\ name \in Range(Replay(log)[t].Indexes)
                 /\ DeclaredIndexes(models, t)[name] # DeclaredIndexes(ms, t)[name])
                => \A ds \in CompareSchema(Replay(log), ManagedModels(ms)) :
                      /\ \E k \in 1..Len(ds) :
                            ds[k].Type = "drop_index" /\ ds[k].TableName = t /\ ds[k].Index.Name = name
                      /\ \E k \in 1..Len(ds) :
                            /\ ds[k].Type = "add_index" /\ ds[k].TableName = t
                            /\ ds[k].Index = DeclaredIndexes(ms, t)[name]

\* C20: every drop_index diff carries the complete IndexSpec (name, uniqueness,
\* ordered fields) of the index it drops, the one the models the log converged
\* to declare, so that the reverse of the entry creates that index again.
C20_Claimed ==
    Converged =>
        \A ms \in Targets : \A ds \in CompareSchema(Replay(log), ManagedModels(ms)) :
            \A k \in 1..Len(ds) :
                (/\ ds[k].Type = "drop_index"
                 /\ ds[k].Index.Name \in DOMAIN DeclaredIndexes(models, ds[k].TableName))
                => ds[k].Index = DeclaredIndexes(models, ds[k].TableName)[ds[k].Index.Name]

\* Vocabulary of the claims about one call of CompareSchema: the simulated state
\* the running loop compares next, and every diff list the call can return.
Current == Replay(log)
NextDiffs == CompareSchema(Current, ManagedModels(models))

\* The prior column a modify_column diff carries: what the reverse of the
\* generated entry reads from it (OldType and the diff's Null, PK and Unique).
PriorColumn(d) ==
    LET c == DownSimulationOf(d)[2]
    IN Column(c.name, c.colType, c.null, c.pk, c.unique)

\* C21: every modify_column diff carries the prior type and the prior nullable,
\* primary-key and unique flags of its column, those the column has in the
\* simulated state the diff was computed from.
C21_Claimed ==
    lpc = "loop" =>
        \A ds \in NextDiffs : \A k \in 1..Len(ds) :
            ds[k].Type = "modify_column" =>
                PriorColumn(ds[k]) = Current[ds[k].TableName].Columns[ds[k].Column.Name]

\* The column type of a declared Go type as the claims and the tests of the diff
\* package name it (TestMapGoTypeToSQLType): int and uint stay apart.
DeclaredTypes ==
    {"string", "*string", "int", "int64", "uint", "uint64", "float32", "float64", "bool", "time.Time"}
DeclaredType(goType) ==
    CASE goType \in {"string", "*string"} -> "string"
      [] goType \in {"int", "int64"} -> "int"
      [] goType \in {"uint", "uint64"} -> "uint"
      [] goType \in {"float32", "float64"} -> "float"
      [] goType = "bool" -> "bool"
      [] goType = "time.Time" -> "timestamp"

\* The diffs of ds on column c of table t.
DiffsOnColumn(ds, t, c) ==
    SelectSeq(ds, LAMBDA d : d.TableName = t /\ d.Column # Nil /\ d.Column.Name = c)

\* The forward simulation of the entry generated from ds on state s, and its
\* reverse simulation on the result.
Forward(ds, s) ==
    CHOOSE r \in { interpretSimulationBlock(code, s0) :
                      code \in {generateUpSimulation(ds)}, s0 \in {s} } : TRUE
ForwardThenReverse(ds, s) ==
    CHOOSE r \in { interpretSimulationBlock(code, s1) :
                      code \in {generateDownSimulation(ds)}, s1 \in {Forward(ds, s)} } : TRUE

\* C22: for a column of the current table whose type differs from the type the
\* target declares for it, the flags being equal (current age:int, target
\* age:uint), the diff has exactly one entry on the column, a modify_column with
\* old type = current type and new type = target type, and the reverse of the
\* generated entry brings the column from the new type back to the old type.
C22_Claimed ==
    lpc = "loop" =>
        \A m \in Range(ManagedModels(models)) : \A f \in Range(m.Fields) :
            LET t == GetTableName(m)
                c == toSnakeCase(f.Name)
            IN (/\ t \in DOMAIN Current
                /\ c \in DOMAIN Current[t].Columns
                /\ f.Type \in DeclaredTypes
                /\ Current[t].Columns[c].Type \in {DeclaredType(g) : g \in DeclaredTypes}
                /\ Current[t].Columns[c].Type # DeclaredType(f.Type)
                /\ Current[t].Columns[c].Null = ~isRequired(f.GormTag)
                /\ Current[t].Columns[c].PK = isPrimaryKey(f.GormTag)
                /\ Current[t].Columns[c].Unique = isUnique(f.GormTag))
               => \A ds \in NextDiffs :
                     LET on == DiffsOnColumn(ds, t, c)
                     IN /\ Len(on) = 1
                        /\ on[1].Type = "modify_column"
                        /\ on[1].Column.OldType = Current[t].Columns[c].Type
                        /\ on[1].Column.Type = DeclaredType(f.Type)
                        /\ Forward(ds, Current)[t].Columns[c].Type = DeclaredType(f.Type)
                        /\ ForwardThenReverse(ds, Current)[t].Columns[c].Type
                              = Current[t].Columns[c].Type

\* The tables of the managed models of ms, and the tables that belong only to
\* models marked unmanaged (the exclusion list).
ManagedTables(ms) == {GetTableName(m) : m \in {x \in Range(ms) : x.Managed}}
UnmanagedTables(ms) == {GetTableName(m) : m \in {x \in Range(ms) : ~x.Managed}} \ ManagedTables(ms)

\* The positions of the diffs of ds on table t.
DiffsOnTable(ds, t) == {k \in 1..Len(ds) : ds[k].TableName = t}

\* C23: CompareSchema, given the parsed models or only the managed ones, emits one
\* drop_table for every simulated table without a managed target model that is
\* not the table of an unmanaged model, and no diff of any type for the table
\* of an unmanaged model, whether or not the simulated state has that table.
C23_Claimed ==
    lpc = "loop" =>
        \A ds \in NextDiffs \cup CompareSchema(Current, models) :
            /\ \A t \in (DOMAIN Current) \ (ManagedTables(models) \cup UnmanagedTables(models)) :
                  /\ Cardinality(DiffsOnTable(ds, t)) = 1
                  /\ \A k \in DiffsOnTable(ds, t) : ds[k].Type = "drop_table"
            /\ \A t \in UnmanagedTables(models) : DiffsOnTable(ds, t) = {}

\* The latest iteration of the loop called CompareSchema: diffs is what the call
\* returned, Compared the simulated state it was given (the replay of the files
\* without the one the iteration then wrote).
Ran == iteration >= 1 /\ lpc \in {"loop", "success"}
Compared == IF lpc = "loop" THEN Replay(SubSeq(log, 1, Len(log) - 1)) ELSE Replay(log)

\* The columns the managed model of table t declares, in field order.
TargetColumns(ms, t) ==
    LET m == CHOOSE x \in Range(ManagedModels(ms)) : GetTableName(x) = t
    IN [j \in 1..Len(m.Fields) |-> ExpectedColumn(m.Fields[j])]

\* C24: for every target table absent from the simulated state the diff holds
\* exactly one entry for the table, a create_table carrying all the target
\* columns, and so no add_column, modify_column, drop_column, add_index or
\* drop_index for it.
C24_CreateTableOnly ==
    Ran =>
        \A t \in ManagedTables(models) \ DOMAIN Compared :
            /\ Cardinality(DiffsOnTable(diffs, t)) = 1
            /\ \A k \in DiffsOnTable(diffs, t) :
                  /\ diffs[k].Type = "create_table"
                  /\ diffs[k].Table.Name = t
                  /\ diffs[k].Table.Columns = TargetColumns(models, t)

\* A table with three columns and an index is created next to a table that
\* exists already and is altered.
C24_Witness ==
    /\ Ran
    /\ Compared # EmptyMap
    /\ \E t \in ManagedTables(models) \ DOMAIN Compared :
          /\ Len(TargetColumns(models, t)) = 3
          /\ DeclaredIndexes(models, t) # EmptyMap
    /\ \E k \in 1..Len(diffs) : diffs[k].Type \in {"add_column", "modify_column"}

\* The positions of the diffs of ds on column c of table t, and the target
\* columns of table t named c.
OnColumn(ds, t, c) ==
    {k \in DiffsOnTable(ds, t) : ds[k].Column # Nil /\ ds[k].Column.Name = c}
TargetNamed(ms, t, c) ==
    {j \in 1..Len(TargetColumns(ms, t)) : TargetColumns(ms, t)[j].Name = c}

\* The current column equals the target column in type, nullable, pk and unique.
SameColumn(cur, tgt) ==
    /\ cur.Type = tgt.Type
    /\ cur.Null = tgt.Null
    /\ cur.PK = tgt.PK
    /\ cur.Unique = tgt.Unique

\* C25: for a table in the simulated state and in the target the diff has, on a
\* target column missing from the current table, one add_column carrying the
\* target column and nothing else; on a current column missing from the target
\* one drop_column and nothing else; and nothing on a column equal in type,
\* nullable, pk and unique (to every target column of its name, should the target
\* declare the name twice).  When the columns differ only by current columns
\* missing from the target and the index names are the same, the diffs of the
\* table are those drop_column diffs alone.
C25_AddDropOrNothing ==
    Ran =>
        \A t \in ManagedTables(models) \cap DOMAIN Compared :
            LET cur == Compared[t].Columns
                tgt == TargetColumns(models, t)
                names == {tgt[j].Name : j \in 1..Len(tgt)}
            IN /\ \A j \in 1..Len(tgt) :
                     IF tgt[j].Name \notin DOMAIN cur
                     THEN /\ Cardinality(OnColumn(diffs, t, tgt[j].Name))
                               = Cardinality(TargetNamed(models, t, tgt[j].Name))
                          /\ \E k \in OnColumn(diffs, t, tgt[j].Name) :
                                diffs[k].Type = "add_column" /\ diffs[k].Column = tgt[j]
                          /\ \A k \in OnColumn(diffs, t, tgt[j].Name) : diffs[k].Type = "add_column"
                     ELSE (\A i \in TargetNamed(models, t, tgt[j].Name) :
                              SameColumn(cur[tgt[j].Name], tgt[i]))
                          => OnColumn(diffs, t, tgt[j].Name) = {}
               /\ \A c \in (DOMAIN cur) \ names :
                     /\ Cardinality(OnColumn(diffs, t, c)) = 1
                     /\ \A k \in OnColumn(diffs, t, c) : diffs[k].Type = "drop_column"
               /\ (/\ \A j \in 1..Len(tgt) :
                         tgt[j].Name \in DOMAIN cur /\ SameColumn(cur[tgt[j].Name], tgt[j])
                    /\ Range(Compared[t].Indexes) = DOMAIN DeclaredIndexes(models, t))
                   => /\ Cardinality(DiffsOnTable(diffs, t)) = Cardinality((DOMAIN cur) \ names)
                      /\ \A k \in DiffsOnTable(diffs, t) : diffs[k].Type = "drop_column"

\* One diff list adds a column of a table, drops another and has nothing for a
\* third, which is equal in the current table and the target.
C25_Witness ==
    /\ Ran
    /\ \E t \in ManagedTables(models) \cap DOMAIN Compared :
          /\ \E k \in DiffsOnTable(diffs, t) : diffs[k].Type = "add_column"
          /\ \E k \in DiffsOnTable(diffs, t) : diffs[k].Type = "drop_column"
          /\ \E j \in 1..Len(TargetColumns(models, t)) :
                /\ TargetColumns(models, t)[j].Name \in DOMAIN Compared[t].Columns
                /\ SameColumn(Compared[t].Columns[TargetColumns(models, t)[j].Name],
                              TargetColumns(models, t)[j])

\* What the claim compares of a SchemaState: its tables, their columns with type
\* and flags, and their sets of index names.
SchemaView(s) == [t \in DOMAIN s |-> [Columns |-> s[t].Columns, Indexes |-> Range(s[t].Indexes)]]

\* C26: the forward simulation of the entry generated from a diff list, followed
\* by its reverse simulation, gives back the SchemaState it started from: the
\* same tables, the same columns with type and flags, the same indexes.
C26_Claimed ==
    lpc = "loop" =>
        \A ds \in NextDiffs : SchemaView(ForwardThenReverse(ds, Current)) = SchemaView(Current)

\* C27: SimulateSchema is a function of the registered migrations alone: every
\* call starts from a fresh empty builder, the builder of a running call is the
\* replay of the entries simulated so far on the empty state, and calls on the
\* same registry return equal states, each the replay the makemigrations loop
\* computes.
C27_PureFunctionOfLog ==
    /\ spc = "run" =>
          builder = SimulateRange(RegistryOf(registry), allMigrations, 1, simIdx - 1,
                                  NewSchemaBuilder)
    /\ \A i \in 1..Len(returned) :
          /\ returned[i].state = SimulateSchema(RegistryOf(returned[i].reg))
          /\ \A j \in 1..Len(returned) :
                returned[i].reg = returned[j].reg => returned[i].state = returned[j].state

\* Two calls on the same three migrations have returned: the same state, with
\* a table.
C27_Witness ==
    /\ Len(returned) = 2
    /\ returned[1].reg = returned[2].reg
    /\ Cardinality(returned[1].reg) = 3
    /\ returned[1].state = returned[2].state
    /\ returned[2].state # NewSchemaBuilder
    /\ simResult.kind = "ok"

\* C28: a call of SimulateSchema calls Up in strictly ascending version order,
\* and a call that returns a builder has called the Up of every registered
\* migration exactly once, in whatever order they were registered.
C28_EveryEntryOnceAscending ==
    /\ \A i \in 1..Len(simCalls) : \A j \in 1..(i - 1) : simCalls[j].v < simCalls[i].v
    /\ spc = "run" => simCalls = [i \in 1..(simIdx - 1) |-> Call(allMigrations[i], TRUE)]
    /\ (spc = "idle" /\ simResult.kind = "ok") =>
          /\ {simCalls[i].v : i \in 1..Len(simCalls)} = returned[Len(returned)].reg
          /\ Len(simCalls) = Cardinality(returned[Len(returned)].reg)

\* A call on three registered migrations has returned its builder.
C28_Witness ==
    /\ spc = "idle"
    /\ simResult.kind = "ok"
    /\ Len(simCalls) = 3
    /\ registry = returned[Len(returned)].reg

\* C29: when the Up of an entry returns an error, SimulateSchema stops there:
\* the failed call is the last one, the call returns an error naming that
\* version and no builder, and nothing is added to the states handed out.
C29_StopAtFailingEntry ==
    /\ [](\A i \in 1..Len(simCalls) :
            ~simCalls[i].ok =>
                /\ i = Len(simCalls)
                /\ spc = "idle"
                /\ simResult = SimRet(NilBuilder, "simulate", simCalls[i].v))
    /\ [][(\E i \in 1..Len(simCalls') : ~simCalls'[i].ok) => returned' = returned]_vars

\* The second of three entries failed after an earlier call had returned a state.
C29_Witness ==
    /\ simResult.kind = "simulate"
    /\ simResult.version = 2
    /\ Len(simCalls) = 2
    /\ Cardinality(registry) = 3
    /\ returned # <<>>

\* C30: GetPendingMigrations returns the registered migrations whose version has
\* no row in the ledger, each once, in strictly ascending version order.
C30_PendingExactlyUnapplied ==
    (pc = "done" /\ result = Ret("pending", "ok", NoVersion)) =>
        /\ Range(pending) = registry \ Range(ledger)
        /\ Len(pending) = Cardinality(registry \ Range(ledger))
        /\ \A i \in 1..Len(pending) : \A j \in 1..(i - 1) : pending[j] < pending[i]

\* Version 2 is applied and versions 1 and 3 were registered afterwards.
C30_Witness ==
    /\ pc = "done"
    /\ result = Ret("pending", "ok", NoVersion)
    /\ Range(ledger) = {2}
    /\ pending = <<1, 3>>

\* GetAppliedMigrations has returned without an error.
AppliedReturned == pc = "done" /\ result.op = "applied" /\ result.kind = "ok"

\* C31 as claimed: GetAppliedMigrations returns one entry for every version
\* recorded in the ledger, each once, sorted ascending by version.
C31_Claimed ==
    AppliedReturned =>
        /\ Range(result.migrations) = Range(ledger)
        /\ Ascending(result.migrations)

\* C31: GetAppliedMigrations returns one entry for every version recorded in the
\* ledger whose migration is registered, each once, sorted ascending by version;
\* a recorded version with no registered migration is left out, and that is no
\* error.
C31_RegisteredAppliedAscending ==
    AppliedReturned =>
        /\ Range(result.migrations) = Range(ledger) \cap registry
        /\ Ascending(result.migrations)

\* Rows 3 and 1 were inserted in that order and 2 is registered but not applied:
\* the call returns 1, 3.
C31_Witness ==
    /\ AppliedReturned
    /\ ledger = <<3, 1>>
    /\ registry = {1, 2, 3}
    /\ result.migrations = <<1, 3>>

\* A step in which GetPendingMigrations or GetAppliedMigrations returns: the only
\* steps after which `result` is the result of one of the two.
QueryStep == Idle /\ result'.op \in {"pending", "applied"}

\* C32: GetPendingMigrations and GetAppliedMigrations change neither the ledger
\* nor the registry nor the real store, and they call no Up and no Down, whether
\* the ledger query succeeds or fails.
C32_QueriesChangeNothing ==
    [][QueryStep =>
        /\ ledger' = ledger
        /\ registry' = registry
        /\ inForce' = inForce
        /\ ups' = <<>>
        /\ downs' = <<>>]_vars

\* Both queries have run one after the other on a ledger with a row and a
\* registry with a pending migration, and the rows and the store are as the
\* Migrate before them left them.
C32_Witness ==
    /\ pc = "done"
    /\ result.op = "applied"
    /\ prev.op = "pending"
    /\ ledger = <<1>>
    /\ inForce = {1}
    /\ registry = {1, 2}

\* C33: the ledger holds at most one record per version at all times, and
\* Migrate never comes to insert a record for a version that has one: after
\* any sequence of Migrate and Rollback calls, complete or failed, the version
\* whose record Migrate is about to insert has no record.
C33_OneRecordPerVersion ==
    /\ \A i, j \in 1..Len(ledger) : ledger[i] = ledger[j] => i = j
    /\ pc = "m_rec" => pending[idx] \notin Range(ledger)

\* Version 2 was recorded, rolled back and recorded again by the Migrate that
\* followed the Rollback: the ledger holds it once.
C33_Witness ==
    /\ MigrateDone("ok")
    /\ prev.op = "rollback"
    /\ prev.changed = {2}
    /\ ledger = <<1, 2>>
    /\ Len(ups) = 1

\* Vocabulary of the claims about single builder calls.
CalledOn(method) == called.call.method = method
OtherTablesKept(t) ==
    /\ DOMAIN builder \ {t} = DOMAIN called.before \ {t}
    /\ \A u \in DOMAIN builder \ {t} : builder[u] = called.before[u]

\* C34: CreateTable(name) on a name that already exists replaces that table
\* with an empty one (no columns, no indexes, no constraints), and every other
\* table is as it was; CreateTable has no error to return.
C34_CreateTableReplaces ==
    (CalledOn("CreateTable") /\ called.call.table \in DOMAIN called.before) =>
        /\ called.call.table \in DOMAIN builder
        /\ builder[called.call.table] = Table(called.call.table)
        /\ OtherTablesKept(called.call.table)

\* CreateTable("user") met a user table with a column, an index and a
\* constraint, next to a product table with a column.
C34_Witness ==
    /\ CalledOn("CreateTable")
    /\ called.call.table = "user"
    /\ "user" \in DOMAIN called.before
    /\ DOMAIN called.before["user"].Columns # {}
    /\ called.before["user"].Indexes # <<>>
    /\ called.before["user"].Constraints # <<>>
    /\ "product" \in DOMAIN builder
    /\ DOMAIN builder["product"].Columns # {}
    /\ builder["user"] = Table("user")

\* C35: AlterTable(name) leaves a table that exists as it is, with its columns,
\* indexes and constraints, and puts an empty table under the name when there
\* is none; either way no other table changes, and AlterTable has no error to
\* return.
C35_AlterTableKeepsOrCreates ==
    CalledOn("AlterTable") =>
        /\ called.call.table \in DOMAIN builder
        /\ builder[called.call.table] =
               IF called.call.table \in DOMAIN called.before
               THEN called.before[called.call.table]
               ELSE Table(called.call.table)
        /\ OtherTablesKept(called.call.table)

\* AlterTable("user") met a user table with a column, an index and a
\* constraint and no product table.
C35_Witness ==
    /\ CalledOn("AlterTable")
    /\ called.call.table = "user"
    /\ "user" \in DOMAIN called.before
    /\ DOMAIN builder["user"].Columns = {"id", "email"}
    /\ builder["user"].Indexes # <<>>
    /\ builder["user"].Constraints # <<>>
    /\ "product" \notin DOMAIN builder

\* C36: in every state the builder reaches, every table is stored under its
\* own name and every column of a table under its own name (the maps hold one
\* value per key, so each is stored once), also after RenameColumn onto a
\* column name that is taken.
C36_StoredUnderOwnName ==
    builder # NilBuilder =>
        \A t \in DOMAIN builder :
            /\ builder[t].Name = t
            /\ \A c \in DOMAIN builder[t].Columns : builder[t].Columns[c].Name = c

\* RenameColumn("id", "email") met a table with both columns, of different
\* types: one column is left, stored under email and named email, with the
\* type the id column had.
C36_Witness ==
    /\ CalledOn("RenameColumn")
    /\ called.call.name = "id"
    /\ called.call.colType = "email"
    /\ LET t == called.call.table IN
        /\ t \in DOMAIN called.before
        /\ DOMAIN called.before[t].Columns = {"id", "email"}
        /\ called.before[t].Columns["id"].Type # called.before[t].Columns["email"].Type
        /\ DOMAIN builder[t].Columns = {"email"}
        /\ builder[t].Columns["email"].Name = "email"
        /\ builder[t].Columns["email"].Type = called.before[t].Columns["id"].Type

\* C37: GenerateMigration called with an empty diff list returns an error
\* (and no path), writes no migration file and takes no version from the
\* allocator: the counter, the last-second marker and the versions issued are
\* as they were.
C37_EmptyDiffsRefused ==
    [][GenerateMigration(<<>>) =>
        /\ generated'.kind = "nodiffs"
        /\ generated'.version = <<>>
        /\ log' = log
        /\ versionCounter' = versionCounter
        /\ lastSecond' = lastSecond
        /\ issued' = issued]_vars

\* The call without diffs came after a call that wrote a file with version
\* ...0001: there is still one file, and the counter is still 1.
C37_Witness ==
    /\ generated.kind = "nodiffs"
    /\ generated.diffs = <<>>
    /\ Len(log) = 1
    /\ versionCounter = 1
    /\ Len(issued) = 1
    /\ log[1].version = issued[1].version

\* C38: when the ledger insert fails after an entry's Up has returned nil,
\* Migrate returns an error naming that version, and the Migrate that follows
\* does not call that entry's Up again.
C38_Claimed ==
    /\ MigrateDone("record") =>
          /\ result.version = pending[idx]
          /\ ups[Len(ups)] = Call(result.version, TRUE)
    /\ (MigrateRun /\ prev.op = "migrate" /\ prev.kind = "record") =>
          prev.version \notin Range(UpVersions)

\* C39: for every log whose replay succeeds and every target, the loop ends
\* with success at an empty diff after finitely many generated entries, and
\* the iteration cap is never reached.
C39_Claimed == lpc # "failed"

\* C40: the AST interpreter running an entry's simulation block leaves the
\* builder in the state that executing the block's builder calls directly, in
\* the same order, leaves it in, for every entry the generator has written.
C40_Claimed ==
    (lpc # "idle" /\ GeneratedEntries >= 1) =>
        LET entry == log[Len(log)]
            before == Replay(SubSeq(log, 1, Len(log) - 1))
        IN interpretSimulationBlock(entry.upCode, before) = Direct(entry.upCode, before)

====
